---------------------------- MODULE Spec2Model ----------------------------
(***************************************************************************)
(* A model of the message pipeline and resilience layer of tallinn-bot:    *)
(* the in-memory conversation context and rate limiter                     *)
(* (bot/utils/context.py, bot/utils/helpers.py), the Redis fact memory     *)
(* (bot/services/memory.py), the URL fetcher (bot/services/url_fetcher.py) *)
(* and the message handler (bot/handlers/messages.py).                     *)
(*                                                                         *)
(* Time is the integer number of seconds time.time() returns.  Telegram    *)
(* ids are integers; the private chat of user u has chat id u.             *)
(***************************************************************************)
EXTENDS Integers, Sequences, FiniteSets, TLC

\* ------------------------------------------------------------ constants
\* config.py
RATE_LIMIT_SECONDS == 5
CONTEXT_SIZE == 10
CONTEXT_MAX_AGE == 3600
RATE_LIMIT_MAX_AGE == 300
EVICTION_INTERVAL == 300
URL_CACHE_TTL == 300
\* context.py: content[:500]
CONTENT_CAP == 500
\* memory.py: save_user_fact / save_group_fact
USER_FACTS_MAX == 20
GROUP_FACTS_MAX == 30
\* url_fetcher.py: the cache is pruned when it holds more entries than this
URL_CACHE_MAX == 50
\* url_fetcher.py: _extract_content_from_html keeps a part longer than this
MIN_PART_LEN == 50
SPONTANEOUS_REPLY_COOLDOWN == 600
SPONTANEOUS_REPLY_MIN_MESSAGES == 5
PROACTIVE_MAX_PER_HOUR == 3
QUIET_HOURS_START == 23
QUIET_HOURS_END == 8
OBSERVER_MAX_CHATS == 500
OBSERVER_STALE_AGE == 7200
HOUR_SECONDS == 3600

\* ------------------------------------------------------------ bounds
\* time.time() when the process starts (any value past the eviction ages)
StartTime == 4000
\* add_to_context calls explored by SpecCtx
MaxAppends == 12
\* seconds explored past StartTime by SpecRate
MaxRateElapsed == 12
\* save calls, concurrent savers and seconds explored by SpecFacts
MaxSaves == 2
MaxSavers == 2
MaxFactElapsed == 1
\* fetch_url_content calls and clock steps explored by SpecFetch
MaxFetchCalls == 3
MaxFetchTicks == 3
\* handle_message calls and seconds explored by SpecPipeline
MaxMessages == 3
MaxPipeElapsed == 1
\* the time SpecObserver starts at (22:50 in Tallinn), the seconds of one of its
\* clock steps, and the clock steps and observe_and_learn calls it explores
ObsStartTime == 75000
ObsTickSeconds == 300
MaxObsTicks == 3
MaxObserved == 7
\* query parameters of the URLs explored by SpecUrl
MaxParams == 4

Users == {1, 2}
Groups == {10}
Chats == Users \cup Groups

Min(a, b) == IF a < b THEN a ELSE b
Max(a, b) == IF a > b THEN a ELSE b

\* dict helpers: a dict is a function whose DOMAIN is its key set
EmptyDict == [k \in {} |-> 0]
DictSet(d, k, v) == [x \in (DOMAIN d) \cup {k} |-> IF x = k THEN v ELSE d[x]]
DictDel(d, ks) == [x \in (DOMAIN d) \ ks |-> d[x]]

\* Python's s[-n:] for n > 0
LastN(s, n) == IF Len(s) <= n THEN s ELSE SubSeq(s, Len(s) - n + 1, Len(s))
\* Python's s[:n]
FirstN(s, n) == IF Len(s) <= n THEN s ELSE SubSeq(s, 1, n)

VARIABLES
    now,              \* time.time()
    chat_context,     \* context.py: chat_context (defaultdict(list))
    user_last_query,  \* context.py: user_last_query (defaultdict(float))
    last_eviction,    \* context.py: _last_eviction
    appended,         \* history: every entry passed to add_to_context, per chat
    rl,               \* history: the last rate-limiter call and what it returned
    redis_up,         \* memory.py: redis_client is not None
    subject,          \* the subject (kind, id) whose facts the explored calls are about
    zsets,            \* Redis: the sorted sets of facts, key -> (member -> score)
    saver,            \* the save_user_fact / save_group_fact calls in flight
    saves,            \* history: number of save calls made
    lastRead,         \* history: the last get_user_facts / get_group_facts result
    lastTrim,         \* history: the ZADD or ZREMRANGEBYRANK a save has just executed
    url_cache,        \* url_fetcher.py: _url_cache, cleaned url -> (content, timestamp)
    fcall,            \* the fetch_url_content calls in flight: position, tasks
    lastFetch,        \* history: the fetch_url_content call that has just ended
    fcalls,           \* history: number of fetch_url_content calls made
    update,           \* the message should_respond is applied to
    botcfg,           \* config.py: BOT_USERNAME, and context.bot.id
    route,            \* what should_respond returned
    hm,               \* the handle_message calls in flight: position, message
    lastHm,           \* history: what a handle_message call has just done
    committed,        \* history: per user, the time of the last set_rate_limit
    hmcalls,          \* history: number of handle_message calls made
    last_spontaneous,       \* observer.py: _last_spontaneous, chat -> time
    messages_since_reply,   \* observer.py: _messages_since_reply, chat -> count
    hourly_sends,           \* observer.py: _hourly_sends, chat -> times
    quiet,            \* Redis: the chats whose key chat:<id>:quiet exists
    obs,              \* the observe_and_learn calls in flight: position, chat
    lastObs,          \* history: what an observe_and_learn call has just done
    sends,            \* history: the times of all spontaneous sends, per chat
    observed,         \* history: number of observe_and_learn calls made
    norm,             \* a URL, and what clean_url makes of it, applied once and twice
    extractions       \* messages.py: the _extract_and_save_facts tasks not yet finished

ctxVars == <<chat_context, user_last_query, last_eviction>>
factVars == <<redis_up, subject, zsets, saver, saves, lastRead, lastTrim>>
fetchVars == <<url_cache, fcall, lastFetch, fcalls>>
routeVars == <<update, botcfg, route>>
pipeVars == <<hm, lastHm, committed, hmcalls, extractions>>
obsOther == <<last_spontaneous, hourly_sends, quiet, obs, lastObs, sends, observed>>
obsVars == <<messages_since_reply, obsOther>>

\* ------------------------------------------------------------ context.py
\* A message text is modelled by an identifier and its length.
Text(id, len) == [id |-> id, len |-> len]
\* content[:500]
Truncate(c) == [c EXCEPT !.len = Min(c.len, CONTENT_CAP)]

Entry(role, name, content, t) ==
    [role |-> role, name |-> name, content |-> Truncate(content), time |-> t]

\* chat_context[chat_id] on a defaultdict(list): a missing key reads as []
CtxGet(ctx, chat_id) == IF chat_id \in DOMAIN ctx THEN ctx[chat_id] ELSE <<>>

\* the same with the trim keeping the oldest entries
add_to_context_keep_oldest(ctx, chat_id, role, name, content, t) ==
    LET buf == Append(CtxGet(ctx, chat_id), Entry(role, name, content, t))
    IN  DictSet(ctx, chat_id, FirstN(buf, CONTEXT_SIZE))

add_to_context(ctx, chat_id, role, name, content, t) ==
    LET buf == Append(CtxGet(ctx, chat_id), Entry(role, name, content, t))
    IN  DictSet(ctx, chat_id,
                IF Len(buf) > CONTEXT_SIZE THEN LastN(buf, CONTEXT_SIZE) ELSE buf)

\* evict_stale_data dropping every timestamp whose cooldown has passed
evict_stale_data_eager(ctx, ulq, le, t) ==
    IF t - le < EVICTION_INTERVAL
    THEN [ctx |-> ctx, ulq |-> ulq, le |-> le]
    ELSE LET stale_chats == {cid \in DOMAIN ctx :
                                /\ Len(ctx[cid]) > 0
                                /\ t - ctx[cid][Len(ctx[cid])].time > CONTEXT_MAX_AGE}
             stale_users == {uid \in DOMAIN ulq : t - ulq[uid] >= RATE_LIMIT_SECONDS}
         IN  [ctx |-> DictDel(ctx, stale_chats),
              ulq |-> DictDel(ulq, stale_users),
              le  |-> t]

\* evict_stale_data with one age for both: a context is dropped once its last
\* entry is older than RATE_LIMIT_MAX_AGE
evict_stale_data_one_age(ctx, ulq, le, t) ==
    IF t - le < EVICTION_INTERVAL
    THEN [ctx |-> ctx, ulq |-> ulq, le |-> le]
    ELSE LET stale_chats == {cid \in DOMAIN ctx :
                                /\ Len(ctx[cid]) > 0
                                /\ t - ctx[cid][Len(ctx[cid])].time > RATE_LIMIT_MAX_AGE}
             stale_users == {uid \in DOMAIN ulq : t - ulq[uid] > RATE_LIMIT_MAX_AGE}
         IN  [ctx |-> DictDel(ctx, stale_chats),
              ulq |-> DictDel(ulq, stale_users),
              le  |-> t]

\* evict_stale_data sweeping at every call
evict_stale_data_every_call(ctx, ulq, le, t) ==
    LET stale_chats == {cid \in DOMAIN ctx :
                           /\ Len(ctx[cid]) > 0
                           /\ t - ctx[cid][Len(ctx[cid])].time > CONTEXT_MAX_AGE}
        stale_users == {uid \in DOMAIN ulq : t - ulq[uid] > RATE_LIMIT_MAX_AGE}
    IN  [ctx |-> DictDel(ctx, stale_chats),
         ulq |-> DictDel(ulq, stale_users),
         le  |-> t]

\* evict_stale_data(): the new (chat_context, user_last_query, _last_eviction)
evict_stale_data(ctx, ulq, le, t) ==
    IF t - le < EVICTION_INTERVAL
    THEN [ctx |-> ctx, ulq |-> ulq, le |-> le]
    ELSE LET stale_chats == {cid \in DOMAIN ctx :
                                /\ Len(ctx[cid]) > 0
                                /\ t - ctx[cid][Len(ctx[cid])].time > CONTEXT_MAX_AGE}
             stale_users == {uid \in DOMAIN ulq : t - ulq[uid] > RATE_LIMIT_MAX_AGE}
         IN  [ctx |-> DictDel(ctx, stale_chats),
              ulq |-> DictDel(ulq, stale_users),
              le  |-> t]

\* ------------------------------------------------------------ helpers.py
\* check_rate_limit still rejecting when the whole cooldown has passed
check_rate_limit_inclusive(ulq, user_id, t) ==
    LET last == IF user_id \in DOMAIN ulq THEN ulq[user_id] ELSE 0
        after == IF user_id \in DOMAIN ulq THEN ulq ELSE DictSet(ulq, user_id, 0)
    IN  IF last # 0 /\ t - last <= RATE_LIMIT_SECONDS
        THEN [limited |-> TRUE, remaining |-> RATE_LIMIT_SECONDS - (t - last),
              ulq |-> after]
        ELSE [limited |-> FALSE, remaining |-> 0, ulq |-> after]

\* check_rate_limit writing the time of a rejected attempt
check_rate_limit_stamping(ulq, user_id, t) ==
    LET last == IF user_id \in DOMAIN ulq THEN ulq[user_id] ELSE 0
        after == IF user_id \in DOMAIN ulq THEN ulq ELSE DictSet(ulq, user_id, 0)
    IN  IF last # 0 /\ t - last < RATE_LIMIT_SECONDS
        THEN [limited |-> TRUE, remaining |-> RATE_LIMIT_SECONDS - (t - last),
              ulq |-> DictSet(after, user_id, t)]
        ELSE [limited |-> FALSE, remaining |-> 0, ulq |-> after]

\* check_rate_limit(user_id): what it returns, and user_last_query after the
\* read user_last_query[user_id] (a defaultdict(float) stores 0.0 under a
\* missing key when it is read)
check_rate_limit(ulq, user_id, t) ==
    LET last == IF user_id \in DOMAIN ulq THEN ulq[user_id] ELSE 0
        after == IF user_id \in DOMAIN ulq THEN ulq ELSE DictSet(ulq, user_id, 0)
    IN  IF last # 0 /\ t - last < RATE_LIMIT_SECONDS
        THEN [limited |-> TRUE, remaining |-> RATE_LIMIT_SECONDS - (t - last),
              ulq |-> after]
        ELSE [limited |-> FALSE, remaining |-> 0, ulq |-> after]

set_rate_limit(ulq, user_id, t) == DictSet(ulq, user_id, t)


\* ------------------------------------------------------------ memory.py
\* A Redis sorted set is the sequence of its (member, score) pairs in rank
\* order: by score, equal scores by member (facts are numbered in
\* lexicographic order).  Rank r of Redis is position r + 1.
FactKey(kind, id) == <<kind, id>>
FactKeys == {FactKey("user", 1), FactKey("group", 10)}
FactCap(kind) == IF kind = "user" THEN USER_FACTS_MAX ELSE GROUP_FACTS_MAX

EmptyZset == <<>>
Members(z) == {z[i].member : i \in DOMAIN z}
RanksBefore(a, b) == a.score < b.score \/ (a.score = b.score /\ a.member < b.member)

\* ZADD inserting the member without looking for it in the set
zadd_appending(z, member, score) ==
    LET new == [member |-> member, score |-> score]
        pos == Cardinality({i \in DOMAIN z : RanksBefore(z[i], new)})
    IN  SubSeq(z, 1, pos) \o <<new>> \o SubSeq(z, pos + 1, Len(z))

\* ZADD key score member: a new member is inserted at its rank, a member the
\* set already holds is moved to the rank of its new score
zadd(z, member, score) ==
    LET new == [member |-> member, score |-> score]
        rest == SelectSeq(z, LAMBDA e : e.member # member)
        pos == Cardinality({i \in DOMAIN rest : RanksBefore(rest[i], new)})
    IN  SubSeq(rest, 1, pos) \o <<new>> \o SubSeq(rest, pos + 1, Len(rest))
\* ZCARD key
zcard(z) == Len(z)
\* ZREMRANGEBYRANK key 0 stop: a negative stop counts from the end, and the
\* range is empty when it ends before rank 0
RangeEnd(z, stop) == IF stop < 0 THEN Len(z) + stop ELSE Min(stop, Len(z) - 1)
\* the same removing the newest members instead of the oldest
zremrangebyrank_newest(z, stop) ==
    IF RangeEnd(z, stop) < 0 THEN z ELSE SubSeq(z, 1, Len(z) - RangeEnd(z, stop) - 1)
zremrangebyrank(z, stop) ==
    IF RangeEnd(z, stop) < 0 THEN z ELSE SubSeq(z, RangeEnd(z, stop) + 2, Len(z))
\* ZRANGE key 0 -1
zrange(z) == [i \in DOMAIN z |-> z[i].member]

IdleSaver == [pc |-> "idle", kind |-> "none", id |-> 0, fact |-> 0]
NoRead == [op |-> "none", kind |-> "none", id |-> 0, facts |-> <<>>]
NoTrim == [op |-> "none", kind |-> "none", id |-> 0, fact |-> 0,
           before |-> EmptyZset, after |-> EmptyZset]

FactsIdle ==
    /\ redis_up = TRUE
    /\ subject = FactKey("user", 1)
    /\ zsets = [k \in FactKeys |-> EmptyZset]
    /\ saver = [p \in 1..MaxSavers |-> IdleSaver]
    /\ saves = 0
    /\ lastRead = NoRead
    /\ lastTrim = NoTrim

\* lastRead and lastTrim describe the step just taken, when it was a read or
\* a trim
NoReadNoTrim == lastRead' = NoRead /\ lastTrim' = NoTrim

\* save_user_fact / save_group_fact, up to the first await: the early return
\* without a client, else ZADD with score time.time() (which may raise)
SaveCall(p, kind, id, fact) ==
    /\ saver[p].pc = "idle"
    /\ saves < MaxSaves
    /\ saves' = saves + 1
    /\ IF ~redis_up
       THEN UNCHANGED <<zsets, saver>> /\ lastTrim' = NoTrim
       ELSE \/ /\ zsets' = [zsets EXCEPT ![FactKey(kind, id)] = zadd(@, fact, now)]
               /\ saver' = [saver EXCEPT
                              ![p] = [pc |-> "zcard", kind |-> kind, id |-> id,
                                      fact |-> fact]]
               /\ lastTrim' = [op |-> "zadd", kind |-> kind, id |-> id, fact |-> fact,
                               before |-> zsets[FactKey(kind, id)],
                               after |-> zadd(zsets[FactKey(kind, id)], fact, now)]
            \/ UNCHANGED <<zsets, saver>> /\ lastTrim' = NoTrim
    /\ lastRead' = NoRead
    /\ UNCHANGED <<norm, obsVars, now, ctxVars, appended, rl, fetchVars, redis_up, subject, routeVars, pipeVars>>

\* count = await redis_client.zcard(key); if count > cap: ...
SaveCount(p) ==
    /\ saver[p].pc = "zcard"
    /\ \/ saver' = [saver EXCEPT
                      ![p] = IF zcard(zsets[FactKey(@.kind, @.id)]) > FactCap(@.kind)
                             THEN [@ EXCEPT !.pc = "zrem"]
                             ELSE IdleSaver]
       \/ saver' = [saver EXCEPT ![p] = IdleSaver]
    /\ NoReadNoTrim
    /\ UNCHANGED <<norm, obsVars, now, ctxVars, appended, rl, fetchVars, redis_up, subject, zsets, saves, routeVars, pipeVars>>

\* await redis_client.zremrangebyrank(key, 0, -(cap + 1))
SaveTrim(p) ==
    LET key == FactKey(saver[p].kind, saver[p].id)
        z == zremrangebyrank(zsets[key], -(FactCap(saver[p].kind) + 1))
    IN  /\ saver[p].pc = "zrem"
        /\ saver' = [saver EXCEPT ![p] = IdleSaver]
        /\ \/ /\ zsets' = [zsets EXCEPT ![key] = z]
              /\ lastTrim' = [op |-> "trim", kind |-> saver[p].kind,
                              id |-> saver[p].id, fact |-> saver[p].fact,
                              before |-> zsets[key], after |-> z]
           \/ UNCHANGED zsets /\ lastTrim' = NoTrim
        /\ lastRead' = NoRead
        /\ UNCHANGED <<norm, obsVars, now, ctxVars, appended, rl, fetchVars, redis_up, subject, saves, routeVars, pipeVars>>

\* get_user_facts / get_group_facts: [] without a client or when ZRANGE raises
FactsRead(kind, id) ==
    /\ \/ lastRead' = [op |-> "read", kind |-> kind, id |-> id,
                       facts |-> IF redis_up THEN zrange(zsets[FactKey(kind, id)])
                                 ELSE <<>>]
       \/ lastRead' = [op |-> "read", kind |-> kind, id |-> id, facts |-> <<>>]
    /\ lastTrim' = NoTrim
    /\ UNCHANGED <<norm, obsVars, now, ctxVars, appended, rl, fetchVars, redis_up, subject, zsets, saver, saves, routeVars, pipeVars>>

\* forget_command: redis_client.delete(key)
FactsForget(kind, id) ==
    /\ redis_up
    /\ zsets[FactKey(kind, id)] # EmptyZset
    /\ zsets' = [zsets EXCEPT ![FactKey(kind, id)] = EmptyZset]
    /\ NoReadNoTrim
    /\ UNCHANGED <<norm, obsVars, now, ctxVars, appended, rl, fetchVars, redis_up, subject, saver, saves, routeVars, pipeVars>>

FactsTick ==
    /\ now < StartTime + MaxFactElapsed
    /\ now' = now + 1
    /\ NoReadNoTrim
    /\ UNCHANGED <<norm, obsVars, ctxVars, appended, rl, fetchVars, redis_up, subject, zsets, saver, saves, routeVars, pipeVars>>

\* ------------------------------------------------------------ helpers.py: URLs
\* A URL is its scheme, host and path (site), its query parameters in order,
\* whether it carries a fragment, and whether urlparse accepts it (urlparse
\* raises ValueError on, e.g., a netloc that is invalid under NFKC).
\* A parameter name is a prefix and a stem, written in upper case or not.
Param(pre, stem, caps, value) == [pre |-> pre, stem |-> stem, caps |-> caps, v |-> value]
Url(site, params, frag, valid) ==
    [site |-> site, params |-> params, frag |-> frag, valid |-> valid]

TrackingStems == {"fbclid", "gclid", "ref", "source", "mc_cid", "mc_eid", "_ga",
                  "yclid", "wickedid", "twclid", "ttclid"}
\* k.lower() in tracking or k.lower().startswith(('utm_', 'aem_'))
IsTracking(q) ==
    \/ q.pre \in {"utm_", "aem_"}
    \/ q.pre = "" /\ q.stem \in TrackingStems

SameKey(a, b) == a.pre = b.pre /\ a.stem = b.stem /\ a.caps = b.caps
\* parse_qs(query, keep_blank_values=False) followed by urlencode(doseq=True):
\* blank values are dropped, and the values of a repeated key follow its
\* first occurrence
GroupByKey(ps) ==
    LET kept == SelectSeq(ps, LAMBDA q : q.v # "")
        first(i) == \A j \in 1..(i - 1) : ~SameKey(kept[j], kept[i])
        firsts == SelectSeq([i \in DOMAIN kept |-> i], first)
        RECURSIVE cat(_)
        cat(n) == IF n = 0 THEN <<>>
                  ELSE cat(n - 1) \o
                       SelectSeq(kept, LAMBDA q : SameKey(q, kept[firsts[n]]))
    IN  cat(Len(firsts))

\* clean_url removing only the first tracking parameter it meets
clean_url_first_only(u) ==
    IF ~u.valid THEN u
    ELSE LET ps == GroupByKey(u.params)
             hits == {i \in DOMAIN ps : IsTracking(ps[i])}
             first == IF hits = {} THEN 0 ELSE CHOOSE i \in hits : \A j \in hits : i <= j
         IN  Url(u.site,
                 IF first = 0 THEN ps
                 ELSE SubSeq(ps, 1, first - 1) \o SubSeq(ps, first + 1, Len(ps)),
                 FALSE, TRUE)

\* clean_url(url): the url itself when parsing raises
clean_url(u) ==
    IF ~u.valid THEN u
    ELSE Url(u.site, SelectSeq(GroupByKey(u.params), LAMBDA q : ~IsTracking(q)),
             FALSE, TRUE)

\* nothing has been normalized
NoUrl == Url(0, <<>>, FALSE, TRUE)
NormIdle == norm = [pc |-> "none", u |-> NoUrl, once |-> NoUrl, twice |-> NoUrl]

\* clean_url applied to the URL, and to its own result
Normalize ==
    /\ norm.pc = "given"
    /\ norm' = [norm EXCEPT !.pc = "once", !.once = clean_url(norm.u)]
    /\ UNCHANGED <<now, ctxVars, appended, rl, factVars, fetchVars, routeVars, pipeVars,
                   obsVars>>

Renormalize ==
    /\ norm.pc = "once"
    /\ norm' = [norm EXCEPT !.pc = "twice", !.twice = clean_url(norm.once)]
    /\ UNCHANGED <<now, ctxVars, appended, rl, factVars, fetchVars, routeVars, pipeVars,
                   obsVars>>

\* ------------------------------------------------------------ payloads
\* The strings fetch_url_content returns: "" (Blank), the text extracted from
\* a page, or the degraded payload of extract_url_info.
Blank == [kind |-> "blank", site |-> 0, parts |-> "", noguess |-> FALSE]
Extracted(parts) == [kind |-> "content", site |-> 0, parts |-> parts, noguess |-> FALSE]
\* extract_url_info(url): names the domain and tells the model not to guess
\* from the URL; "" when urlparse raises
extract_url_info(u) ==
    IF ~u.valid THEN Blank
    ELSE [kind |-> "degraded", site |-> u.site, parts |-> "", noguess |-> TRUE]

\* ------------------------------------------------------------ url_fetcher.py
\* A page body: the lengths of its formatted metadata and of its article
\* text, whether its JSON-LD is of the shape _extract_jsonld_item expects
\* (it raises on, e.g., a description that is not a string), and whether it
\* matches the bot-protection indicators of is_cloudflare_block.
Body(meta, text, jsonld_ok, cf) ==
    [meta |-> meta, text |-> text, jsonld_ok |-> jsonld_ok, cf |-> cf]
PageRich == Body(MIN_PART_LEN + 1, MIN_PART_LEN + 1, TRUE, FALSE)
PageMeta == Body(MIN_PART_LEN + 1, MIN_PART_LEN, TRUE, FALSE)
PageText == Body(MIN_PART_LEN, MIN_PART_LEN + 1, TRUE, FALSE)
PageThin == Body(MIN_PART_LEN, MIN_PART_LEN, TRUE, FALSE)
PageBad  == Body(MIN_PART_LEN + 1, MIN_PART_LEN + 1, FALSE, FALSE)
PageCf   == Body(0, MIN_PART_LEN + 1, TRUE, TRUE)
Bodies == {PageRich, PageMeta, PageText, PageThin, PageBad, PageCf}
is_cloudflare_block(html) == html.cf

\* what session.get does: a response, or an exception (timeout, connection)
Response(status, body) == [raised |-> FALSE, status |-> status, body |-> body]
GetRaised == [raised |-> TRUE, status |-> 0, body |-> PageThin]
Responses == {Response(200, b) : b \in Bodies}
             \cup {Response(403, PageCf), Response(403, PageThin), Response(429, PageThin),
                   Response(404, PageThin), Response(500, PageCf), GetRaised}

\* Python's None, as a string, as a page body and as a payload
None == "None"
NoHtml == Body(0, 0, TRUE, FALSE)
NoResult == [kind |-> "none", site |-> 0, parts |-> "", noguess |-> FALSE]
Failed(error) == [ok |-> FALSE, html |-> NoHtml, error |-> error]
\* _curl_fetch: (html, None), where ok, or (None, error)
curl_fetch(resp) ==
    IF resp.raised THEN Failed("exception")
    ELSE IF resp.status \in {403, 429, 503}
    THEN IF is_cloudflare_block(resp.body)
         THEN Failed("cloudflare")
         ELSE Failed("HTTP soft block")
    ELSE IF resp.status >= 400
    THEN Failed("HTTP error")
    ELSE IF is_cloudflare_block(resp.body)
    THEN Failed("cloudflare")
    ELSE [ok |-> TRUE, html |-> resp.body, error |-> None]

\* _extract_content_from_html: the content, "" or an exception
Raises == [kind |-> "raises", site |-> 0, parts |-> "", noguess |-> FALSE]
extract_content_from_html(html) ==
    IF ~html.jsonld_ok THEN Raises
    ELSE IF html.meta > MIN_PART_LEN
    THEN IF html.text > MIN_PART_LEN THEN Extracted("meta+text") ELSE Extracted("meta")
    ELSE IF html.text > MIN_PART_LEN THEN Extracted("text")
    ELSE Blank

IMPERSONATE_PROFILES == <<"chrome", "safari">>
Profiles == {IMPERSONATE_PROFILES[i] : i \in DOMAIN IMPERSONATE_PROFILES}

\* The for loop over `done` (lines 105-128), run on the tasks of `order` from
\* position i on.  result: the content found (NoResult for None); stop: the
\* loop ended by break; cancel: the pending tasks were cancelled; raised: an
\* exception left the loop; seen: the results examined.
RECURSIVE ExamineDone(_, _, _, _)
ExamineDone(order, res, i, seen) ==
    IF i > Len(order)
    THEN [result |-> NoResult, stop |-> FALSE, cancel |-> FALSE, raised |-> FALSE,
          seen |-> seen]
    ELSE LET r == curl_fetch(res[order[i]])
             seen1 == Append(seen, [profile |-> order[i], ok |-> r.ok,
                                    html |-> r.html, error |-> r.error])
         IN  IF r.error = "cloudflare"
             THEN [result |-> NoResult, stop |-> TRUE, cancel |-> TRUE,
                   raised |-> FALSE, seen |-> seen1]
             ELSE IF r.ok
             THEN IF extract_content_from_html(r.html) = Raises
                  THEN [result |-> NoResult, stop |-> TRUE, cancel |-> FALSE,
                        raised |-> TRUE, seen |-> seen1]
                  ELSE [result |-> extract_content_from_html(r.html), stop |-> TRUE,
                        cancel |-> TRUE, raised |-> FALSE, seen |-> seen1]
             ELSE ExamineDone(order, res, i + 1, seen1)

\* the race without its except clause
RaceExceptionEscapes_uncaught(raised) == raised
\* try: ... except Exception (lines 102, 132-133): an exception raised in the
\* race is logged and the call goes on; TRUE when it propagates to the caller
RaceExceptionEscapes(raised) == FALSE

\* the cache check returning an entry of age URL_CACHE_TTL as well
CacheLive_inclusive(entry, t) == t - entry.ts <= URL_CACHE_TTL
\* now - cached_at < URL_CACHE_TTL
CacheLive(entry, t) == t - entry.ts < URL_CACHE_TTL

\* lines 144-149: store the result, then drop the expired entries once the
\* cache holds more than URL_CACHE_MAX
CacheStore(cache, key, result, t) ==
    LET c == DictSet(cache, key, [content |-> result, ts |-> t])
    IN  IF Cardinality(DOMAIN c) > URL_CACHE_MAX
        THEN DictDel(c, {k \in DOMAIN c : t - c[k].ts > URL_CACHE_TTL})
        ELSE c

\* the calls that may overlap
FetchSlots == {1, 2}
NoTasks == [pr \in Profiles |-> "none"]
IdleFetch == [pc |-> "idle", url |-> NoUrl, key |-> NoUrl, tasks |-> NoTasks,
              seen |-> <<>>]
\* what a call has just done: started a race, returned or raised; the payload
\* returned, whether it came from the cache, whether the cache held an entry
\* for the key at the cache check (and the entry's timestamp), the clock, the
\* state of the call's tasks, the results it examined and the results of the
\* completed tasks it left unexamined
NoFetch == [op |-> "none", url |-> NoUrl, key |-> NoUrl, ret |-> Blank,
            hit |-> FALSE, cached |-> FALSE, cachedAt |-> 0, at |-> 0,
            tasks |-> NoTasks, seen |-> <<>>, unseen |-> {}]

FetchIdle ==
    /\ url_cache = EmptyDict
    /\ fcall = [p \in FetchSlots |-> IdleFetch]
    /\ lastFetch = NoFetch
    /\ fcalls = 0

\* fetch_url_content up to its first await (lines 78-104): the cache check,
\* and on a miss the creation of one task per profile
FetchCall(p, url) ==
    LET key == clean_url(url)
        cached == key \in DOMAIN url_cache
    IN  /\ fcall[p].pc = "idle"
        /\ fcalls < MaxFetchCalls
        /\ fcalls' = fcalls + 1
        /\ IF cached /\ CacheLive(url_cache[key], now)
           THEN /\ lastFetch' = [NoFetch EXCEPT
                                   !.op = "returned", !.url = url, !.key = key,
                                   !.ret = url_cache[key].content, !.hit = TRUE,
                                   !.cached = TRUE,
                                   !.cachedAt = url_cache[key].ts, !.at = now]
                /\ UNCHANGED <<url_cache, fcall>>
           ELSE /\ fcall' = [fcall EXCEPT
                               ![p] = [IdleFetch EXCEPT
                                         !.pc = "waiting", !.url = url, !.key = key,
                                         !.tasks = [pr \in Profiles |-> "pending"]]]
                /\ url_cache' = IF cached THEN DictDel(url_cache, {key})
                                ELSE url_cache
                /\ lastFetch' = [NoFetch EXCEPT
                                   !.op = "racing", !.url = url, !.key = key,
                                   !.at = now, !.cached = cached,
                                   !.cachedAt = IF cached THEN url_cache[key].ts
                                                ELSE 0]
        /\ UNCHANGED <<norm, obsVars, now, ctxVars, appended, rl, factVars, routeVars, pipeVars>>

\* a _curl_fetch task completes (its session.get answers, raises or times out)
AttemptDone(p, pr) ==
    /\ fcall[p].tasks[pr] = "pending"
    /\ fcall' = [fcall EXCEPT ![p].tasks[pr] = "done"]
    /\ lastFetch' = NoFetch
    /\ UNCHANGED <<norm, obsVars, now, ctxVars, appended, rl, factVars, url_cache, fcalls, routeVars, pipeVars>>

Perms(S) == {q \in [1..Cardinality(S) -> S] : \A i, j \in DOMAIN q : i # j => q[i] # q[j]}

\* asyncio.wait returns with the tasks completed so far (lines 104-151): they
\* are examined in the order the set yields them; the race goes on, or the
\* call stores its result in the cache and returns it
FetchWake(p) ==
    LET c == fcall[p]
        done == {pr \in Profiles : c.tasks[pr] = "done"}
        pending == {pr \in Profiles : c.tasks[pr] = "pending"}
    IN  /\ c.pc = "waiting"
        /\ done # {}
        /\ \E order \in Perms(done), res \in [done -> Responses] :
             LET x == ExamineDone(order, res, 1, c.seen)
                 tasks1 == [pr \in Profiles |->
                              IF pr \in done THEN "examined"
                              ELSE IF x.cancel /\ pr \in pending THEN "cancelled"
                              ELSE c.tasks[pr]]
                 goon == ~x.stop /\ pending # {}
                 result == IF x.result = NoResult THEN extract_url_info(c.key)
                           ELSE x.result
                 examined == {x.seen[i].profile : i \in DOMAIN x.seen}
                 unseen == {[profile |-> pr, ok |-> curl_fetch(res[pr]).ok,
                             html |-> curl_fetch(res[pr]).html,
                             error |-> curl_fetch(res[pr]).error] :
                               pr \in done \ examined}
                 ended == [NoFetch EXCEPT !.url = c.url, !.key = c.key,
                                          !.tasks = tasks1, !.seen = x.seen,
                                          !.unseen = unseen, !.at = now]
             IN  IF goon
                 THEN /\ fcall' = [fcall EXCEPT ![p].tasks = tasks1, ![p].seen = x.seen]
                      /\ lastFetch' = NoFetch
                      /\ UNCHANGED url_cache
                 ELSE IF RaceExceptionEscapes(x.raised)
                 THEN /\ fcall' = [fcall EXCEPT ![p] = IdleFetch]
                      /\ lastFetch' = [ended EXCEPT !.op = "raised"]
                      /\ UNCHANGED url_cache
                 ELSE /\ fcall' = [fcall EXCEPT ![p] = IdleFetch]
                      /\ lastFetch' = [ended EXCEPT !.op = "returned", !.ret = result]
                      /\ url_cache' = CacheStore(url_cache, c.key, result, now)
        /\ UNCHANGED <<norm, obsVars, now, ctxVars, appended, rl, factVars, fcalls, routeVars, pipeVars>>

FetchTick ==
    /\ now < StartTime + MaxFetchTicks * (URL_CACHE_TTL \div 2)
    /\ now' = now + (URL_CACHE_TTL \div 2)
    /\ lastFetch' = NoFetch
    /\ UNCHANGED <<norm, obsVars, ctxVars, appended, rl, factVars, url_cache, fcall, fcalls, routeVars, pipeVars>>

\* ------------------------------------------------------------ idle parts
NoCall == [op |-> "none", user |-> 0, at |-> 0, limited |-> FALSE, remaining |-> 0,
           before |-> EmptyDict, prev |-> <<>>]

CtxIdle ==
    /\ chat_context = EmptyDict
    /\ user_last_query = EmptyDict
    /\ last_eviction = 0
    /\ appended = [c \in Chats |-> <<>>]
    /\ rl = NoCall

\* ------------------------------------------------------------ SpecCtx
\* Sequences of add_to_context calls on two conversations.  The n-th call
\* appends the n-th message: its role, speaker and length follow from n, so
\* that every entry is distinct.
CtxChats == {1, 10}
NthRole(n) == IF n % 2 = 1 THEN "user" ELSE "assistant"
NthName(n) == IF n % 2 = 1 THEN "user" ELSE "bot"
NthText(n) == Text(n, CASE n % 3 = 0 -> 700 [] n % 3 = 1 -> 12 [] OTHER -> 500)
Appends == Len(appended[1]) + Len(appended[2]) + Len(appended[10])

CtxAppend(c) ==
    LET n == Appends + 1 IN
    /\ n <= MaxAppends
    /\ chat_context' = add_to_context(chat_context, c, NthRole(n), NthName(n),
                                      NthText(n), now)
    /\ appended' = [appended EXCEPT
                      ![c] = Append(@, Entry(NthRole(n), NthName(n), NthText(n), now))]
    /\ UNCHANGED <<norm, obsVars, now, user_last_query, last_eviction, rl, factVars, fetchVars, routeVars, pipeVars>>

\* ------------------------------------------------------------ SpecRate
\* The rate limiter called directly: check_rate_limit, set_rate_limit and
\* the passing of time.
RateCheck(u) ==
    LET r == check_rate_limit(user_last_query, u, now) IN
    /\ user_last_query' = r.ulq
    /\ rl' = [op |-> "check", user |-> u, at |-> now, limited |-> r.limited,
              remaining |-> r.remaining, before |-> user_last_query,
              prev |-> IF rl.op = "check"
                       THEN <<[user |-> rl.user, at |-> rl.at,
                               limited |-> rl.limited, remaining |-> rl.remaining]>>
                       ELSE <<>>]
    /\ UNCHANGED <<norm, obsVars, now, chat_context, last_eviction, appended, factVars, fetchVars, routeVars, pipeVars>>

RateCommit(u) ==
    /\ user_last_query' = set_rate_limit(user_last_query, u, now)
    /\ rl' = [NoCall EXCEPT !.op = "commit", !.user = u, !.at = now,
                            !.before = user_last_query]
    /\ UNCHANGED <<norm, obsVars, now, chat_context, last_eviction, appended, factVars, fetchVars, routeVars, pipeVars>>

RateTick ==
    /\ now < StartTime + MaxRateElapsed
    /\ now' = now + 1
    /\ UNCHANGED <<norm, obsVars, chat_context, user_last_query, last_eviction, appended, rl, factVars, fetchVars, routeVars, pipeVars>>


\* ------------------------------------------------------------ messages.py: routing
\* A username is its letters in lower case and whether it is written with
\* capitals; str.lower() drops the capitals.  NoName is None or "".
Name(stem, caps) == [stem |-> stem, caps |-> caps]
NoName == Name("", FALSE)
lower(h) == [h EXCEPT !.caps = FALSE]

\* A text is a sequence of tokens: a word, or "@" followed by a username and
\* possibly by further characters of a longer name.
Word(w) == [at |-> FALSE, h |-> NoName, tail |-> FALSE, w |-> w]
At(h, tail) == [at |-> TRUE, h |-> h, tail |-> tail, w |-> ""]
\* f"@{bot_username}" in content
Mentions(content, bot_username) ==
    \E i \in DOMAIN content : content[i].at /\ content[i].h = bot_username

\* telegram.User, telegram.Message
NoUser == [present |-> FALSE, username |-> NoName, id |-> 0]
User(username, id) == [present |-> TRUE, username |-> username, id |-> id]
NoReply == [present |-> FALSE, from_user |-> NoUser]
ReplyTo(from_user) == [present |-> TRUE, from_user |-> from_user]
Message(chat_type, chat_id, from_id, text, caption, forward_origin, photo, reply) ==
    [present |-> TRUE, chat_type |-> chat_type, chat_id |-> chat_id, from_id |-> from_id,
     text |-> text, caption |-> caption, forward_origin |-> forward_origin,
     photo |-> photo, reply_to_message |-> reply]
\* update.message is None
NoMessage ==
    [present |-> FALSE, chat_type |-> "private", chat_id |-> 0, from_id |-> 0,
     text |-> <<>>, caption |-> <<>>, forward_origin |-> FALSE,
     photo |-> 0, reply_to_message |-> NoReply]

get_message_content(message) ==
    IF message.text # <<>> THEN message.text
    ELSE IF message.caption # <<>> THEN message.caption
    ELSE <<>>
is_forwarded_message(message) == message.present /\ message.forward_origin
has_photo(message) == message.present /\ message.photo > 0

\* text.replace(f"@{bot_username}", "").strip()
RECURSIVE extract_question(_, _)
extract_question(text, bot_username) ==
    IF text = <<>> THEN <<>>
    ELSE LET tok == Head(text)
             rest == extract_question(Tail(text), bot_username)
         IN  IF tok.at /\ tok.h = bot_username
             THEN IF tok.tail THEN <<Word("tail")>> \o rest ELSE rest
             ELSE <<tok>> \o rest

\* should_respond comparing the usernames as they are written
should_respond_case_sensitive(message, bot_username, bot_id) ==
    LET content == get_message_content(message)
        reply_from == message.reply_to_message.from_user
    IN  IF ~message.present THEN FALSE
        ELSE IF content = <<>> /\ ~is_forwarded_message(message) /\ ~has_photo(message)
        THEN FALSE
        ELSE IF message.chat_type = "private" /\ (content # <<>> \/ has_photo(message))
        THEN TRUE
        ELSE IF /\ message.reply_to_message.present /\ reply_from.present
                /\ \/ reply_from.username # NoName /\ reply_from.username = bot_username
                   \/ bot_id # 0 /\ reply_from.id = bot_id
        THEN TRUE
        ELSE content # <<>> /\ Mentions(content, bot_username)

\* should_respond(update, bot_username, bot_id); bot_id 0 is None
should_respond(message, bot_username, bot_id) ==
    LET content == get_message_content(message)
        reply_from == message.reply_to_message.from_user
    IN  IF ~message.present THEN FALSE
        ELSE IF content = <<>> /\ ~is_forwarded_message(message) /\ ~has_photo(message)
        THEN FALSE
        ELSE IF message.chat_type = "private" /\ (content # <<>> \/ has_photo(message))
        THEN TRUE
        ELSE IF /\ message.reply_to_message.present /\ reply_from.present
                /\ \/ /\ reply_from.username # NoName
                      /\ lower(reply_from.username) = lower(bot_username)
                   \/ bot_id # 0 /\ reply_from.id = bot_id
        THEN TRUE
        ELSE content # <<>> /\ Mentions(content, bot_username)

\* the bot's handle as configured, its id, and the ids of other users
BotName == Name("tallinnbot", FALSE)
BotNameCaps == Name("tallinnbot", TRUE)
BotId == 7
NoRoute == [op |-> "none", result |-> FALSE]
RouteIdle ==
    /\ update = NoMessage
    /\ botcfg = [username |-> BotName, id |-> BotId]
    /\ route = NoRoute

\* ------------------------------------------------------------ SpecRoute
\* should_respond applied to one message: every combination of chat type,
\* text or caption, forward marker, photo and replied-to sender, under a bot
\* handle configured in either case and a known or unknown bot id.
RouteTexts ==
    {<<>>, <<Word("hi")>>, <<At(BotName, FALSE)>>, <<At(BotNameCaps, FALSE), Word("hi")>>,
     <<Word("hi"), At(BotName, TRUE)>>, <<At(Name("other", FALSE), FALSE)>>}
RouteCaptions == {<<>>, <<Word("hi")>>, <<Word("hi"), At(BotName, FALSE)>>}
RouteSenders ==
    {NoUser} \cup {User(n, i) : n \in {NoName, BotName, BotNameCaps, Name("other", FALSE)},
                                i \in {BotId, 1}}
RouteReplies == {NoReply} \cup {ReplyTo(u) : u \in RouteSenders}
\* a Telegram message has a text or a caption, not both
RouteMessages ==
    {NoMessage} \cup
    {Message(ct, 10, 1, tc[1], tc[2], fw, ph, r) :
        ct \in {"private", "group", "supergroup"},
        tc \in {<<t, <<>>>> : t \in RouteTexts} \cup {<<<<>>, c>> : c \in RouteCaptions},
        fw \in BOOLEAN, ph \in {0, 1}, r \in RouteReplies}
BotConfigs == {[username |-> n, id |-> i] : n \in {BotName, BotNameCaps}, i \in {0, BotId}}

Route ==
    /\ route.op = "none"
    /\ route' = [op |-> "done",
                 result |-> should_respond(update, botcfg.username, botcfg.id)]
    /\ UNCHANGED <<norm, obsVars, now, ctxVars, appended, rl, factVars, fetchVars, update, botcfg, pipeVars>>

\* ------------------------------------------------------------ observer.py
\* d.get(k, default)
DictGet(d, k, default) == IF k \in DOMAIN d THEN d[k] ELSE default

\* datetime.now(TALLINN_TZ).hour, with Tallinn two hours ahead of UTC
TallinnUtcOffset == 7200
TallinnHour(t) == ((t + TallinnUtcOffset) \div HOUR_SECONDS) % 24

\* _is_quiet_hours()
is_quiet_hours(t) ==
    LET hour == TallinnHour(t) IN
    IF QUIET_HOURS_START > QUIET_HOURS_END
    THEN hour >= QUIET_HOURS_START \/ hour < QUIET_HOURS_END
    ELSE QUIET_HOURS_START <= hour /\ hour < QUIET_HOURS_END

\* _check_rate_ok(chat_id): what it returns, and _hourly_sends after its pruning
check_rate_ok(ls, msr, hs, chat_id, t) ==
    IF t - DictGet(ls, chat_id, 0) < SPONTANEOUS_REPLY_COOLDOWN
    THEN [ok |-> FALSE, hs |-> hs]
    ELSE IF DictGet(msr, chat_id, 0) < SPONTANEOUS_REPLY_MIN_MESSAGES
    THEN [ok |-> FALSE, hs |-> hs]
    ELSE LET kept == SelectSeq(DictGet(hs, chat_id, <<>>),
                               LAMBDA x : t - x < HOUR_SECONDS)
         IN  [ok |-> Len(kept) < PROACTIVE_MAX_PER_HOUR,
              hs |-> DictSet(hs, chat_id, kept)]

\* evict_stale_observer_data(): the three dicts after it
evict_stale_observer_data(ls, msr, hs, t) ==
    IF Cardinality(DOMAIN ls) <= OBSERVER_MAX_CHATS
    THEN [ls |-> ls, msr |-> msr, hs |-> hs]
    ELSE LET stale == {cid \in DOMAIN ls : t - ls[cid] > OBSERVER_STALE_AGE}
         IN  [ls |-> DictDel(ls, stale), msr |-> DictDel(msr, stale),
              hs |-> DictDel(hs, stale)]

\* record_bot_replied(chat_id)
record_bot_replied(msr, chat_id) == DictSet(msr, chat_id, 0)

\* memory.py is_quiet_mode(chat_id): False without a client and when the
\* lookup raises
is_quiet_mode(up, raised, q, chat_id) ==
    IF ~up THEN FALSE
    ELSE IF raised THEN FALSE
    ELSE chat_id \in q

\* memory.py set_quiet_mode(chat_id, enabled): the keys after it
set_quiet_mode(up, raised, q, chat_id, enabled) ==
    IF ~up \/ raised THEN q
    ELSE IF enabled THEN q \cup {chat_id}
    ELSE q \ {chat_id}

\* the calls that may overlap (concurrent_updates)
ObsSlots == {1, 2}
IdleObs == [pc |-> "idle", chat |-> 0]
\* what a call has just done: skipped (and why) or sent; for a send, the
\* counter it found, the seconds since the previous send to the chat (-1 when
\* there was none), the number of sends of the preceding hour and whether the
\* chat's quiet key existed
NoObs == [op |-> "none", why |-> "", chat |-> 0, at |-> 0, count |-> 0,
          since |-> -1, recent |-> 0, muted |-> FALSE]
ObsIdleOther ==
    /\ last_spontaneous = EmptyDict
    /\ hourly_sends = EmptyDict
    /\ quiet = {}
    /\ obs = [p \in ObsSlots |-> IdleObs]
    /\ lastObs = NoObs
    /\ sends = [c \in Groups |-> <<>>]
    /\ observed = 0
ObsIdle == messages_since_reply = EmptyDict /\ ObsIdleOther

\* observe_and_learn up to its first await (lines 116-166), for a text message
\* of a user in a group: the counter, the cleanup, quiet hours, the rate check
\* and the draw (draw: random.random() <= probability)
ObsStart(p, c, draw) ==
    LET msr == DictSet(messages_since_reply, c, DictGet(messages_since_reply, c, 0) + 1)
        e == evict_stale_observer_data(last_spontaneous, msr, hourly_sends, now)
        r == check_rate_ok(e.ls, e.msr, e.hs, c, now)
        did == [NoObs EXCEPT !.chat = c, !.at = now, !.count = DictGet(e.msr, c, 0)]
    IN  /\ obs[p].pc = "idle"
        /\ observed < MaxObserved
        /\ observed' = observed + 1
        /\ last_spontaneous' = e.ls
        /\ messages_since_reply' = e.msr
        /\ IF is_quiet_hours(now)
           THEN /\ hourly_sends' = e.hs
                /\ lastObs' = [did EXCEPT !.op = "skipped", !.why = "quiet hours"]
                /\ UNCHANGED obs
           ELSE IF ~r.ok
           THEN /\ hourly_sends' = r.hs
                /\ lastObs' = [did EXCEPT !.op = "skipped", !.why = "rate"]
                /\ UNCHANGED obs
           ELSE IF ~draw
           THEN /\ hourly_sends' = r.hs
                /\ lastObs' = [did EXCEPT !.op = "skipped", !.why = "draw"]
                /\ UNCHANGED obs
           ELSE /\ hourly_sends' = r.hs
                /\ lastObs' = [did EXCEPT !.op = "eligible"]
                /\ obs' = [obs EXCEPT ![p] = [pc |-> IF redis_up THEN "looking"
                                                     ELSE "generating",
                                              chat |-> c]]
        /\ UNCHANGED <<norm, now, ctxVars, appended, rl, factVars, fetchVars, routeVars,
                       pipeVars, quiet, sends>>

\* is_quiet_mode has answered (lines 166-171)
ObsLooked(p, raised) ==
    LET c == obs[p].chat IN
    /\ obs[p].pc = "looking"
    /\ IF is_quiet_mode(redis_up, raised, quiet, c)
       THEN /\ obs' = [obs EXCEPT ![p] = IdleObs]
            /\ lastObs' = [NoObs EXCEPT !.op = "skipped", !.why = "quiet mode",
                                       !.chat = c, !.at = now]
       ELSE /\ obs' = [obs EXCEPT ![p].pc = "generating"]
            /\ lastObs' = NoObs
    /\ UNCHANGED <<norm, now, ctxVars, appended, rl, factVars, fetchVars, routeVars, pipeVars,
                   last_spontaneous, messages_since_reply, hourly_sends, quiet, sends,
                   observed>>

\* _generate_spontaneous_comment has returned a comment or None (lines
\* 171-182): with a comment the three dicts are written and then the comment
\* is sent with reply_text, which delivers it or raises (nothing catches it)
ObsGenerated(p, comment, delivered) ==
    LET c == obs[p].chat
        earlier == sends[c]
    IN  /\ obs[p].pc = "generating"
        /\ obs' = [obs EXCEPT ![p] = IdleObs]
        /\ IF comment
           THEN /\ last_spontaneous' = DictSet(last_spontaneous, c, now)
                /\ messages_since_reply' = DictSet(messages_since_reply, c, 0)
                /\ hourly_sends' = DictSet(hourly_sends, c,
                                           Append(DictGet(hourly_sends, c, <<>>), now))
                /\ sends' = IF delivered THEN [sends EXCEPT ![c] = Append(@, now)]
                            ELSE sends
                /\ lastObs' = [op |-> IF delivered THEN "sent" ELSE "undelivered",
                               why |-> "", chat |-> c, at |-> now,
                               count |-> DictGet(messages_since_reply, c, 0),
                               since |-> IF earlier = <<>> THEN -1
                                         ELSE now - earlier[Len(earlier)],
                               recent |-> Len(SelectSeq(earlier,
                                              LAMBDA x : now - x < HOUR_SECONDS)),
                               muted |-> c \in quiet]
           ELSE /\ lastObs' = [NoObs EXCEPT !.op = "skipped", !.why = "silent",
                                           !.chat = c, !.at = now]
                /\ UNCHANGED <<last_spontaneous, messages_since_reply, hourly_sends, sends>>
        /\ UNCHANGED <<norm, now, ctxVars, appended, rl, factVars, fetchVars, routeVars,
                       pipeVars, quiet, observed>>

\* commands.py quiet_command of an administrator of a group: the key is
\* toggled
QuietCommand(c, lookup_raised, set_raised) ==
    LET currently_quiet == is_quiet_mode(redis_up, lookup_raised, quiet, c) IN
    /\ quiet' = set_quiet_mode(redis_up, set_raised, quiet, c, ~currently_quiet)
    /\ lastObs' = NoObs
    /\ UNCHANGED <<norm, now, ctxVars, appended, rl, factVars, fetchVars, routeVars, pipeVars,
                   last_spontaneous, messages_since_reply, hourly_sends, obs, sends,
                   observed>>

\* a handle_message call has sent its answer to the chat (messages.py line 318)
BotReplied(c) ==
    /\ messages_since_reply' = record_bot_replied(messages_since_reply, c)
    /\ lastObs' = NoObs
    /\ UNCHANGED <<norm, now, ctxVars, appended, rl, factVars, fetchVars, routeVars, pipeVars,
                   last_spontaneous, hourly_sends, quiet, obs, sends, observed>>

ObsTick ==
    /\ now < ObsStartTime + MaxObsTicks * ObsTickSeconds
    /\ now' = now + ObsTickSeconds
    /\ lastObs' = NoObs
    /\ UNCHANGED <<norm, ctxVars, appended, rl, factVars, fetchVars, routeVars, pipeVars,
                   last_spontaneous, messages_since_reply, hourly_sends, quiet, obs,
                   sends, observed>>

\* ------------------------------------------------------------ messages.py: handle_message
\* the length of a text, in characters
RECURSIVE TextLen(_)
TextLen(text) ==
    IF text = <<>> THEN 0
    ELSE (IF Head(text).at THEN 11 ELSE 4) + TextLen(Tail(text))
TextOf(text) == Text(text, TextLen(text))
\* get_display_name(user), or "user"
DisplayName(user_id) == IF user_id = 1 THEN "Anna" ELSE "user"
\* what query_perplexity returns: the model's answer, or one of its error
\* messages when the query fails (it catches every exception)
Answer(ok) ==
    IF ok THEN Text(<<Word("answer")>>, CONTENT_CAP + 300)
    ELSE Text(<<Word("error")>>, 40)

\* the calls that may overlap (concurrent_updates)
HmSlots == {1, 2}
IdleHm == [pc |-> "idle", msg |-> NoMessage, question |-> <<>>, history |-> <<>>]
\* what a call has just done, for which user and when, the user_last_query it
\* found before its check_rate_limit or set_rate_limit, the seconds it told the
\* user to wait, and whether the model query had failed; for a call that has
\* just started: its message, and the user_last_query and the context of the
\* message's chat as they were when it started; for a call that has just
\* sent its reply: which one; for a call that has read the store: how the
\* store behaved; for a call that has just started: chat_context as it found it
NoHm == [op |-> "none", user |-> 0, at |-> 0, remaining |-> 0, failed |-> FALSE,
         before |-> EmptyDict, msg |-> NoMessage, found |-> EmptyDict, ctx |-> <<>>,
         reply |-> "", store |-> "ok", contexts |-> EmptyDict, read |-> FALSE,
         buffer |-> <<>>, last_eviction |-> 0]
NeverCommitted == [at |-> 0, rejected |-> 0]
PipeIdle ==
    /\ hm = [p \in HmSlots |-> IdleHm]
    /\ lastHm = NoHm
    /\ committed = [u \in Users |-> NeverCommitted]
    /\ hmcalls = 0
    /\ extractions = <<>>

\* handle_message up to its first await (lines 92-228), for a message that
\* carries no link and replies to nothing: eviction, routing, the question,
\* the rate check
HmStart(p, m) ==
    LET e == evict_stale_data(chat_context, user_last_query, last_eviction, now)
        user_id == m.from_id
        chat_id == m.chat_id
        msg_content == get_message_content(m)
        tracked == IF msg_content # <<>> /\ m.chat_type # "private"
                   THEN add_to_context(e.ctx, chat_id, "user", DisplayName(user_id),
                                       TextOf(msg_content), now)
                   ELSE e.ctx
        extracted == extract_question(msg_content, botcfg.username)
        referenced == is_forwarded_message(m) /\ msg_content # <<>>
        asked == IF referenced /\ extracted = <<>> THEN <<Word("tell")>> ELSE extracted
        question == IF asked = <<>> /\ has_photo(m) THEN <<Word("photo")>> ELSE asked
        r == check_rate_limit(e.ulq, user_id, now)
        did == [NoHm EXCEPT !.user = user_id, !.at = now, !.msg = m,
                            !.found = user_last_query,
                            !.ctx = CtxGet(chat_context, chat_id),
                            !.contexts = chat_context,
                            !.last_eviction = last_eviction]
    IN  /\ hm[p].pc = "idle"
        /\ hmcalls < MaxMessages
        /\ hmcalls' = hmcalls + 1
        /\ last_eviction' = e.le
        /\ IF ~should_respond(m, botcfg.username, botcfg.id)
           THEN /\ chat_context' = tracked
                /\ user_last_query' = e.ulq
                /\ lastHm' = [did EXCEPT !.op = "ignored"]
                /\ UNCHANGED <<hm, committed>>
           ELSE IF asked = <<>> /\ ~referenced /\ ~has_photo(m)
           THEN /\ chat_context' = e.ctx
                /\ user_last_query' = e.ulq
                /\ hm' = [hm EXCEPT ![p] = [IdleHm EXCEPT !.pc = "asking", !.msg = m]]
                /\ lastHm' = [did EXCEPT !.op = "asked"]
                /\ UNCHANGED committed
           ELSE IF r.limited
           THEN /\ chat_context' = tracked
                /\ user_last_query' = r.ulq
                /\ hm' = [hm EXCEPT ![p] = [IdleHm EXCEPT !.pc = "rejecting", !.msg = m]]
                /\ lastHm' = [did EXCEPT !.op = "rejected", !.remaining = r.remaining,
                                         !.before = e.ulq]
                /\ committed' = [committed EXCEPT
                                   ![user_id].rejected = Min(@ + 1, MaxMessages)]
           ELSE /\ chat_context' = e.ctx
                /\ user_last_query' = r.ulq
                /\ hm' = [hm EXCEPT ![p] = [IdleHm EXCEPT !.pc = "typing", !.msg = m,
                                                          !.question = question]]
                /\ lastHm' = [did EXCEPT !.op = "admitted", !.before = e.ulq]
                /\ UNCHANGED committed
        /\ UNCHANGED <<extractions, norm, obsVars, now, appended, rl, factVars, fetchVars, routeVars>>

\* fact learning started after every reply, the notice and the prompt included
create_extraction_any_reply(tasks, pc, m) ==
    Append(tasks, [pc |-> "extracting", chat |-> m.chat_id, user |-> m.from_id, slot |-> 0])
\* asyncio.create_task(_extract_and_save_facts(...)) (lines 327-331), reached
\* only after the model's answer was sent: the task is created and not awaited
create_extraction(tasks, pc, m) ==
    IF pc = "replying"
    THEN Append(tasks, [pc |-> "extracting", chat |-> m.chat_id, user |-> m.from_id,
                        slot |-> 0])
    ELSE tasks

\* reply_text has returned (lines 209-210, 223-226, 317-331): the call ends;
\* after the model's answer it calls record_bot_replied and starts the
\* background fact extraction
HmReplied(p) ==
    LET m == hm[p].msg IN
    /\ hm[p].pc \in {"asking", "rejecting", "replying"}
    /\ hm' = [hm EXCEPT ![p] = IdleHm]
    /\ lastHm' = [NoHm EXCEPT !.op = "replied", !.user = m.from_id, !.at = now,
                              !.msg = m, !.reply = hm[p].pc]
    /\ messages_since_reply' =
         IF hm[p].pc = "replying"
         THEN record_bot_replied(messages_since_reply, m.chat_id)
         ELSE messages_since_reply
    /\ extractions' = create_extraction(extractions, hm[p].pc, m)
    /\ UNCHANGED <<norm, obsOther, now, ctxVars, appended, rl, factVars, fetchVars, routeVars,
                   committed, hmcalls>>

\* _extract_and_save_facts (lines 66-87): smart_extract_facts and the fallback
\* have found nothing, or a fact, or one of them raised.  A fact is saved with
\* save_user_fact when chat_id == user_id, else with save_group_fact, which
\* return at once without a client and else run up to their ZADD (which may
\* raise: the save logs it and returns).  The except clause of the task logs
\* what was raised.
ExtractedFact == 101
ExtractDone(i, outcome, p) ==
    LET x == extractions[i]
        kind == IF x.chat = x.user THEN "user" ELSE "group"
        key == FactKey(kind, x.chat)
    IN  /\ i \in DOMAIN extractions
        /\ x.pc = "extracting"
        /\ lastRead' = NoRead
        /\ IF outcome = "nothing"
           THEN /\ extractions' = [extractions EXCEPT ![i].pc = "done"]
                /\ lastTrim' = NoTrim
                /\ UNCHANGED <<zsets, saver>>
           ELSE IF outcome = "raises"
           THEN /\ extractions' = [extractions EXCEPT ![i].pc = "failed"]
                /\ lastTrim' = NoTrim
                /\ UNCHANGED <<zsets, saver>>
           ELSE IF ~redis_up
           THEN /\ extractions' = [extractions EXCEPT ![i].pc = "done"]
                /\ lastTrim' = NoTrim
                /\ UNCHANGED <<zsets, saver>>
           ELSE /\ saver[p].pc = "idle"
                /\ \/ /\ zsets' = [zsets EXCEPT ![key] = zadd(@, ExtractedFact, now)]
                      /\ saver' = [saver EXCEPT
                                     ![p] = [pc |-> "zcard", kind |-> kind, id |-> x.chat,
                                             fact |-> ExtractedFact]]
                      /\ lastTrim' = [op |-> "zadd", kind |-> kind, id |-> x.chat,
                                      fact |-> ExtractedFact, before |-> zsets[key],
                                      after |-> zadd(zsets[key], ExtractedFact, now)]
                      /\ extractions' = [extractions EXCEPT ![i].pc = "saving",
                                                            ![i].slot = p]
                   \/ /\ extractions' = [extractions EXCEPT ![i].pc = "done"]
                      /\ lastTrim' = NoTrim
                      /\ UNCHANGED <<zsets, saver>>
        /\ UNCHANGED <<norm, obsVars, now, ctxVars, appended, rl, fetchVars, redis_up, subject,
                       saves, routeVars, hm, lastHm, committed, hmcalls>>

\* the save has returned: the task ends
ExtractEnd(i) ==
    /\ i \in DOMAIN extractions
    /\ extractions[i].pc = "saving"
    /\ saver[extractions[i].slot].pc = "idle"
    /\ extractions' = [extractions EXCEPT ![i].pc = "done"]
    /\ lastRead' = NoRead
    /\ lastTrim' = NoTrim
    /\ UNCHANGED <<norm, obsVars, now, ctxVars, appended, rl, fetchVars, redis_up, subject,
                   zsets, saver, saves, routeVars, hm, lastHm, committed, hmcalls>>

\* get_context_messages(chat_id): the conversation's entries, oldest first, at
\* most CONTEXT_SIZE, as the messages of the model's prompt
get_context_messages(ctx, chat_id) ==
    LET es == LastN(CtxGet(ctx, chat_id), CONTEXT_SIZE)
    IN  [i \in DOMAIN es |-> [role |-> es[i].role, content |-> es[i].content]]

\* the fallback of lines 238-250: the texts Redis returned, newest first,
\* become user messages, oldest first
\* the buffer read newest first becomes a history newest first
RecentAsHistory_newest_first(recent) ==
    [i \in DOMAIN recent |-> [role |-> "user", content |-> recent[i]]]
RecentAsHistory(recent) ==
    [i \in DOMAIN recent |-> [role |-> "user", content |-> recent[Len(recent) + 1 - i]]]

\* the same with the user's message appended before the history is read
append_then_read(ctx, m, question, recent, t) ==
    LET msg_content == get_message_content(m)
        added == IF m.chat_type # "private"
                 THEN IF msg_content # <<>>
                      THEN add_to_context(ctx, m.chat_id, "user", DisplayName(m.from_id),
                                          TextOf(msg_content), t)
                      ELSE ctx
                 ELSE add_to_context(ctx, m.chat_id, "user", DisplayName(m.from_id),
                                     TextOf(question), t)
        read == get_context_messages(added, m.chat_id)
    IN  [history |-> IF read = <<>> /\ m.chat_type # "private"
                     THEN RecentAsHistory(recent) ELSE read,
         fallback |-> read = <<>> /\ m.chat_type # "private",
         ctx |-> added]

\* lines 234-257: the history for the query is read (from Redis when the
\* context of a group is empty), then the user's message is appended
read_then_append(ctx, m, question, recent, t) ==
    LET msg_content == get_message_content(m)
        read == get_context_messages(ctx, m.chat_id)
    IN  [history |-> IF read = <<>> /\ m.chat_type # "private"
                     THEN RecentAsHistory(recent) ELSE read,
         fallback |-> read = <<>> /\ m.chat_type # "private",
         ctx |-> IF m.chat_type # "private"
                 THEN IF msg_content # <<>>
                      THEN add_to_context(ctx, m.chat_id, "user", DisplayName(m.from_id),
                                          TextOf(msg_content), t)
                      ELSE ctx
                 ELSE add_to_context(ctx, m.chat_id, "user", DisplayName(m.from_id),
                                     TextOf(question), t)]

\* the number of entries the handler asks the buffer for (line 240)
RECENT_FALLBACK_COUNT == 15
\* the chat's list in Redis, newest first: empty, two earlier messages, or one
\* message more than the handler asks for
RecentBuffers ==
    {<<>>,
     <<Text(<<Word("later")>>, 5), Text(<<Word("earlier")>>, 7)>>,
     [i \in 1..RECENT_FALLBACK_COUNT + 1 |-> Text(<<Word("said")>>, i)]}
\* memory.py get_recent_chat_messages: the first count entries of the list;
\* nothing without a client ("down") or when the command raises, which the
\* function catches
get_recent_chat_messages(store, buffer, count) ==
    IF store # "ok" THEN <<>> ELSE SubSeq(buffer, 1, Min(count, Len(buffer)))

\* send_typing has returned (lines 228-262): the history is read, the user's
\* message enters the context and the call waits for the facts and the style
HmTyped(p, buffer, store) ==
    LET m == hm[p].msg
        recent == get_recent_chat_messages(store, buffer, RECENT_FALLBACK_COUNT)
        r == read_then_append(chat_context, m, hm[p].question, recent, now)
    IN  /\ hm[p].pc = "typing"
        /\ chat_context' = r.ctx
        /\ hm' = [hm EXCEPT ![p].pc = "gathering", ![p].history = r.history]
        /\ lastHm' = [NoHm EXCEPT !.op = "typed", !.user = m.from_id, !.at = now,
                                  !.msg = m, !.ctx = CtxGet(chat_context, m.chat_id),
                                  !.read = r.fallback,
                                  !.store = IF r.fallback THEN store ELSE "ok",
                                  !.buffer = IF r.fallback THEN buffer ELSE <<>>]
        /\ UNCHANGED <<extractions, norm, obsVars, now, user_last_query, last_eviction, appended, rl, factVars,
                       fetchVars, routeVars, committed, hmcalls>>

\* the facts and the style have been read (lines 262-298) from a store that
\* is connected and answers ("ok"), is not connected ("down": every read is
\* empty) or raises: get_user_facts and get_group_facts catch the error,
\* get_style_summary does not, which ends the call
HmGathered(p, store) ==
    /\ hm[p].pc = "gathering"
    /\ IF store # "raises"
       THEN /\ hm' = [hm EXCEPT ![p].pc = "querying"]
            /\ lastHm' = [NoHm EXCEPT !.op = "gathered", !.user = hm[p].msg.from_id,
                                      !.at = now, !.msg = hm[p].msg, !.store = store]
       ELSE /\ hm' = [hm EXCEPT ![p] = IdleHm]
            /\ lastHm' = [NoHm EXCEPT !.op = "aborted", !.user = hm[p].msg.from_id,
                                      !.at = now, !.before = user_last_query,
                                      !.msg = hm[p].msg, !.store = store]
    /\ UNCHANGED <<extractions, norm, obsVars, now, ctxVars, appended, rl, factVars, fetchVars, routeVars,
                   committed, hmcalls>>

\* query_perplexity has returned (lines 298-317): the timestamp is written and
\* the answer enters the context
HmAnswered(p, ok) ==
    LET m == hm[p].msg IN
    /\ hm[p].pc = "querying"
    /\ user_last_query' = set_rate_limit(user_last_query, m.from_id, now)
    /\ chat_context' = add_to_context(chat_context, m.chat_id, "assistant", "bot",
                                      Answer(ok), now)
    /\ hm' = [hm EXCEPT ![p].pc = "replying"]
    /\ lastHm' = [NoHm EXCEPT !.op = "answered", !.user = m.from_id, !.at = now,
                              !.failed = ~ok, !.before = user_last_query]
    /\ committed' = [committed EXCEPT ![m.from_id] = [at |-> now, rejected |-> 0]]
    /\ UNCHANGED <<extractions, norm, obsVars, now, last_eviction, appended, rl, factVars, fetchVars, routeVars, hmcalls>>

HmTick ==
    /\ now < StartTime + MaxPipeElapsed
    /\ now' = now + 1
    /\ lastHm' = NoHm
    /\ UNCHANGED <<extractions, norm, obsVars, ctxVars, appended, rl, factVars, fetchVars, routeVars, hm,
                   committed, hmcalls>>

\* ------------------------------------------------------------ specifications
vars == <<now, chat_context, user_last_query, last_eviction, appended, rl, factVars, fetchVars,
         routeVars, pipeVars, obsVars, norm>>

InitCtx == now = StartTime /\ CtxIdle /\ FactsIdle /\ FetchIdle /\ RouteIdle /\ PipeIdle /\ ObsIdle /\ NormIdle
NextCtx == \E c \in CtxChats : CtxAppend(c)
SpecCtx == InitCtx /\ [][NextCtx]_vars

InitRate == now = StartTime /\ CtxIdle /\ FactsIdle /\ FetchIdle /\ RouteIdle /\ PipeIdle /\ ObsIdle /\ NormIdle
NextRate ==
    \/ \E u \in Users : RateCheck(u)
    \/ \E u \in Users : RateCommit(u)
    \/ RateTick
SpecRate == InitRate /\ [][NextRate]_vars

\* SpecFacts: concurrent saves, reads and forgets on the fact set of one
\* subject, a user or a group.  The set starts one below or at its cap, as
\* that many earlier saves at distinct times leave it.
OldFacts(n) == [f \in 1..n |-> [member |-> f, score |-> StartTime - 100 + f]]
SavedFacts == {1, 101, 102}
InitFacts ==
    /\ now = StartTime
    /\ CtxIdle
    /\ FetchIdle
    /\ RouteIdle
    /\ PipeIdle
    /\ ObsIdle
    /\ NormIdle
    /\ redis_up \in BOOLEAN
    /\ subject \in FactKeys
    /\ \E below \in {0, 1} :
           zsets = [k \in FactKeys |->
                       IF k = subject THEN OldFacts(FactCap(k[1]) - below)
                       ELSE EmptyZset]
    /\ saver = [p \in 1..MaxSavers |-> IdleSaver]
    /\ saves = 0
    /\ lastRead = NoRead
    /\ lastTrim = NoTrim
NextFacts ==
    \/ \E p \in 1..MaxSavers, f \in SavedFacts :
           SaveCall(p, subject[1], subject[2], f)
    \/ \E p \in 1..MaxSavers : SaveCount(p)
    \/ \E p \in 1..MaxSavers : SaveTrim(p)
    \/ FactsRead(subject[1], subject[2])
    \/ FactsForget(subject[1], subject[2])
    \/ FactsTick
SpecFacts == InitFacts /\ [][NextFacts]_vars

\* SpecFetch: fetch_url_content calls, one after the other, for two URLs with
\* the same normalized form and one URL urlparse rejects, against every combination of attempt
\* outcomes.  The clock moves in half TTLs.  The cache starts empty or with
\* URL_CACHE_MAX entries left by earlier calls.
UrlPlain == Url(101, <<>>, FALSE, TRUE)
UrlTracked == Url(101, <<Param("utm_", "source", FALSE, "x")>>, TRUE, TRUE)
UrlInvalid == Url(102, <<>>, FALSE, FALSE)
FetchUrls == {UrlPlain, UrlTracked, UrlInvalid}
OldEntries(n) ==
    [k \in {Url(i, <<>>, FALSE, TRUE) : i \in 1..n} |->
        [content |-> Extracted("meta"), ts |-> StartTime]]
InitFetch ==
    /\ now = StartTime
    /\ CtxIdle
    /\ FactsIdle
    /\ RouteIdle
    /\ PipeIdle
    /\ ObsIdle
    /\ NormIdle
    /\ url_cache \in {EmptyDict, OldEntries(URL_CACHE_MAX)}
    /\ fcall = [p \in FetchSlots |-> IdleFetch]
    /\ lastFetch = NoFetch
    /\ fcalls = 0
NextFetch ==
    \/ \E u \in FetchUrls : FetchCall(1, u)
    \/ \E pr \in Profiles : AttemptDone(1, pr)
    \/ FetchWake(1)
    \/ FetchTick
SpecFetch == InitFetch /\ [][NextFetch]_vars

\* SpecFetchOverlap: two fetch_url_content calls that overlap, as two
\* handle_message calls awaiting their links do, for the plain and the tracked
\* form of one URL; the cache starts empty.
OverlapUrls == {UrlPlain, UrlTracked}
InitFetchOverlap ==
    /\ now = StartTime
    /\ CtxIdle
    /\ FactsIdle
    /\ FetchIdle
    /\ RouteIdle
    /\ PipeIdle
    /\ ObsIdle
    /\ NormIdle
NextFetchOverlap ==
    \/ \E p \in FetchSlots, u \in OverlapUrls : FetchCall(p, u)
    \/ \E p \in FetchSlots, pr \in Profiles : AttemptDone(p, pr)
    \/ \E p \in FetchSlots : FetchWake(p)
SpecFetchOverlap == InitFetchOverlap /\ [][NextFetchOverlap]_vars

\* SpecRoute: should_respond applied once to a message
InitRoute ==
    /\ now = StartTime
    /\ CtxIdle
    /\ FactsIdle
    /\ FetchIdle
    /\ PipeIdle
    /\ ObsIdle
    /\ NormIdle
    /\ update \in RouteMessages
    /\ botcfg \in BotConfigs
    /\ route = NoRoute
NextRoute == Route
SpecRoute == InitRoute /\ [][NextRoute]_vars

\* SpecPipeline: handle_message calls, one after the other, for messages of
\* two users in a private chat and in a group: a question, a bare mention, and
\* a message that is not for the bot.  The process has just started, or has
\* run for a while: the observer then counted, after the answer in the group,
\* the message that had asked for it.
PipeMessages ==
    {Message("private", 1, 1, <<Word("hi")>>, <<>>, FALSE, 0, NoReply),
     Message("private", 1, 1, <<At(BotName, FALSE)>>, <<>>, FALSE, 0, NoReply),
     Message("group", 10, 1, <<At(BotName, FALSE), Word("hi")>>, <<>>, FALSE, 0, NoReply),
     Message("group", 10, 1, <<Word("hi")>>, <<>>, FALSE, 0, NoReply),
     Message("group", 10, 2, <<At(BotName, FALSE), Word("hi")>>, <<>>, FALSE, 0, NoReply)}
\* the process has run for a while: user 2 asked in the group long ago, user 1
\* asked in the private chat and was answered RecentAge seconds ago
OldStamp == StartTime - RATE_LIMIT_MAX_AGE - 1
RecentAge == RATE_LIMIT_SECONDS - 1
WarmContext ==
    [c \in {1, 10} |->
        IF c = 1
        THEN <<Entry("user", DisplayName(1), TextOf(<<Word("hi")>>), StartTime - RecentAge - 2),
               Entry("assistant", "bot", Answer(TRUE), StartTime - RecentAge)>>
        ELSE <<Entry("user", DisplayName(2), TextOf(<<At(BotName, FALSE), Word("hi")>>),
                     OldStamp - 2),
               Entry("assistant", "bot", Answer(TRUE), OldStamp)>>]
\* nothing has happened for more than CONTEXT_MAX_AGE since user 2 asked in
\* the group
StaleStamp == StartTime - CONTEXT_MAX_AGE - 1
StaleContext ==
    <<Entry("user", DisplayName(2), TextOf(<<At(BotName, FALSE), Word("hi")>>), StaleStamp - 2),
      Entry("assistant", "bot", Answer(TRUE), StaleStamp)>>
InitPipeline ==
    /\ now = StartTime
    /\ FactsIdle
    /\ FetchIdle
    /\ RouteIdle
    /\ appended = [c \in Chats |-> <<>>]
    /\ rl = NoCall
    /\ hm = [p \in HmSlots |-> IdleHm]
    /\ lastHm = NoHm
    /\ hmcalls = 0
    /\ extractions = <<>>
    /\ ObsIdleOther
    /\ NormIdle
    /\ \/ /\ chat_context = EmptyDict
          /\ user_last_query = EmptyDict
          /\ committed = [u \in Users |-> NeverCommitted]
          /\ last_eviction = 0
       \/ /\ chat_context = WarmContext
          /\ user_last_query = [u \in Users |-> IF u = 1 THEN StartTime - RecentAge
                                                ELSE OldStamp]
          /\ committed = [u \in Users |->
                            [at |-> user_last_query[u], rejected |-> 0]]
          /\ last_eviction \in {StartTime - EVICTION_INTERVAL, StartTime - 10}
       \/ /\ chat_context = [c \in {10} |-> StaleContext]
          /\ user_last_query = [u \in {2} |-> StaleStamp]
          /\ committed = [u \in Users |-> IF u = 2 THEN [at |-> StaleStamp, rejected |-> 0]
                                          ELSE NeverCommitted]
          /\ last_eviction = StaleStamp - 2
    /\ messages_since_reply = IF chat_context = EmptyDict THEN EmptyDict
                              ELSE [c \in {10} |-> 1]
NextPipeline ==
    \/ \E m \in PipeMessages : HmStart(1, m)
    \/ \E buffer \in RecentBuffers, store \in {"ok", "down", "raises"} :
          HmTyped(1, buffer, store)
    \/ \E store \in {"ok", "down", "raises"} : HmGathered(1, store)
    \/ \E ok \in BOOLEAN : HmAnswered(1, ok)
    \/ HmReplied(1)
    \/ HmTick
SpecPipeline == InitPipeline /\ [][NextPipeline]_vars

\* SpecConcurrent: handle_message calls that overlap, as concurrent_updates(True)
\* lets them: each call is suspended at its awaits (the typing indicator, the
\* fact reads, the model query, the reply) while the other runs.  One user
\* writes in a private chat and in a group; the process has just started.
ConcurrentMessages ==
    {Message("private", 1, 1, <<Word("hi")>>, <<>>, FALSE, 0, NoReply),
     Message("group", 10, 1, <<At(BotName, FALSE), Word("hi")>>, <<>>, FALSE, 0, NoReply)}
InitConcurrent ==
    /\ now = StartTime
    /\ CtxIdle
    /\ FactsIdle
    /\ FetchIdle
    /\ RouteIdle
    /\ PipeIdle
    /\ ObsIdle
    /\ NormIdle
NextConcurrent ==
    \/ \E p \in HmSlots, m \in ConcurrentMessages : HmStart(p, m)
    \/ \E p \in HmSlots : HmTyped(p, <<>>, "ok")
    \/ \E p \in HmSlots : HmGathered(p, "ok")
    \/ \E p \in HmSlots : HmAnswered(p, TRUE)
    \/ \E p \in HmSlots : HmReplied(p)
    \/ HmTick
SpecConcurrent == InitConcurrent /\ [][NextConcurrent]_vars

\* SpecLearn: handle_message calls, one after the other, for questions of user
\* 1 in the private chat and in the group, with the background fact
\* extraction each answer starts.  The store is connected or not; the user's
\* fact set is at its cap, the group's is empty.
LearnMessages ==
    {Message("private", 1, 1, <<Word("hi")>>, <<>>, FALSE, 0, NoReply),
     Message("group", 10, 1, <<At(BotName, FALSE), Word("hi")>>, <<>>, FALSE, 0, NoReply)}
InitLearn ==
    /\ now = StartTime
    /\ CtxIdle
    /\ FetchIdle
    /\ RouteIdle
    /\ PipeIdle
    /\ ObsIdle
    /\ NormIdle
    /\ redis_up \in BOOLEAN
    /\ subject = FactKey("user", 1)
    /\ zsets = [k \in FactKeys |-> IF k = FactKey("user", 1) THEN OldFacts(USER_FACTS_MAX)
                                    ELSE EmptyZset]
    /\ saver = [p \in 1..MaxSavers |-> IdleSaver]
    /\ saves = 0
    /\ lastRead = NoRead
    /\ lastTrim = NoTrim
NextLearn ==
    \/ \E m \in LearnMessages : HmStart(1, m)
    \/ HmTyped(1, <<>>, "ok")
    \/ HmGathered(1, "ok")
    \/ \E ok \in BOOLEAN : HmAnswered(1, ok)
    \/ HmReplied(1)
    \/ \E i \in 1..MaxMessages, outcome \in {"nothing", "raises", "fact"},
          p \in 1..MaxSavers : ExtractDone(i, outcome, p)
    \/ \E p \in 1..MaxSavers : SaveCount(p)
    \/ \E p \in 1..MaxSavers : SaveTrim(p)
    \/ \E i \in 1..MaxMessages : ExtractEnd(i)
    \/ HmTick
SpecLearn == InitLearn /\ [][NextLearn]_vars

\* SpecObserver: observe_and_learn calls on the text messages of one group,
\* overlapping, with /quiet commands, answers of handle_message and the
\* passing of time.  The process has just started, or has sent two or three
\* spontaneous comments within the last hour and has counted four messages
\* since; the store is connected or not, and the chat may have been muted
\* earlier.
InitObserver ==
    /\ now = ObsStartTime
    /\ CtxIdle
    /\ FetchIdle
    /\ RouteIdle
    /\ PipeIdle
    /\ redis_up \in BOOLEAN
    /\ subject = FactKey("user", 1)
    /\ zsets = [k \in FactKeys |-> EmptyZset]
    /\ saver = [p \in 1..MaxSavers |-> IdleSaver]
    /\ saves = 0
    /\ lastRead = NoRead
    /\ lastTrim = NoTrim
    /\ quiet \in {{}, {10}}
    /\ obs = [p \in ObsSlots |-> IdleObs]
    /\ lastObs = NoObs
    /\ observed = 0
    /\ NormIdle
    /\ \/ /\ last_spontaneous = EmptyDict
          /\ messages_since_reply = EmptyDict
          /\ hourly_sends = EmptyDict
          /\ sends = [c \in Groups |-> <<>>]
       \/ /\ sends \in {[c \in Groups |-> <<now - 3 * ObsTickSeconds,
                                             now - ObsTickSeconds>>],
                         [c \in Groups |-> <<now - 3 * SPONTANEOUS_REPLY_COOLDOWN,
                                             now - 2 * SPONTANEOUS_REPLY_COOLDOWN,
                                             now - SPONTANEOUS_REPLY_COOLDOWN>>]}
          /\ hourly_sends = [c \in {10} |-> sends[c]]
          /\ last_spontaneous = [c \in {10} |-> sends[c][Len(sends[c])]]
          /\ messages_since_reply = [c \in {10} |-> SPONTANEOUS_REPLY_MIN_MESSAGES - 1]
NextObserver ==
    \/ \E c \in Groups, draw \in BOOLEAN : ObsStart(1, c, draw)
    \/ \E c \in Groups, draw \in BOOLEAN : ObsStart(2, c, draw)
    \/ \E p \in ObsSlots, raised \in BOOLEAN : ObsLooked(p, raised)
    \/ \E p \in ObsSlots, comment \in BOOLEAN, delivered \in BOOLEAN :
          ObsGenerated(p, comment, delivered)
    \/ \E c \in Groups, lookup_raised \in BOOLEAN, set_raised \in BOOLEAN :
          QuietCommand(c, lookup_raised, set_raised)
    \/ \E c \in Groups : BotReplied(c)
    \/ ObsTick
SpecObserver == InitObserver /\ [][NextObserver]_vars

\* SpecUpdate: the text messages of one group, one update after the other.
\* For each update the application runs handle_message (handler group 0) to
\* its end and then observe_and_learn (group 1) on the same message.  The
\* process has run for a while: user 1 was answered RecentAge seconds ago or
\* never, and the observer has counted four messages since the last reply or
\* none.  It is 22:50 in Tallinn.
UpdateMessages ==
    {Message("group", 10, 1, <<At(BotName, FALSE), Word("hi")>>, <<>>, FALSE, 0, NoReply),
     Message("group", 10, 1, <<At(BotName, FALSE)>>, <<>>, FALSE, 0, NoReply),
     Message("group", 10, 2, <<Word("hi")>>, <<>>, FALSE, 0, NoReply)}
\* the dispatcher hands the next update to handle_message once both handlers
\* of the previous one have returned
UpdHandle(m) ==
    /\ hmcalls = observed
    /\ obs[1].pc = "idle"
    /\ HmStart(1, m)
\* handle_message has returned (or raised): observe_and_learn runs on the
\* message it was given
UpdObserve(draw) ==
    /\ hm[1].pc = "idle"
    /\ observed < hmcalls
    /\ ObsStart(1, lastHm.msg.chat_id, draw)
\* a second passes while handle_message is suspended
UpdTick ==
    /\ hm[1].pc \in {"typing", "gathering", "querying"}
    /\ now < ObsStartTime + MaxPipeElapsed
    /\ now' = now + 1
    /\ lastHm' = NoHm
    /\ UNCHANGED <<extractions, norm, obsVars, ctxVars, appended, rl, factVars, fetchVars, routeVars, hm,
                   committed, hmcalls>>
InitUpdate ==
    /\ now = ObsStartTime
    /\ FactsIdle
    /\ FetchIdle
    /\ RouteIdle
    /\ NormIdle
    /\ ObsIdleOther
    /\ appended = [c \in Chats |-> <<>>]
    /\ rl = NoCall
    /\ hm = [p \in HmSlots |-> IdleHm]
    /\ lastHm = NoHm
    /\ hmcalls = 0
    /\ extractions = <<>>
    /\ last_eviction = now - 10
    /\ chat_context = [c \in {10} |->
                         <<Entry("user", DisplayName(1),
                                 TextOf(<<At(BotName, FALSE), Word("hi")>>),
                                 now - RecentAge - 2),
                           Entry("assistant", "bot", Answer(TRUE), now - RecentAge)>>]
    /\ user_last_query \in {EmptyDict, [u \in {1} |-> now - RecentAge]}
    /\ committed = [u \in Users |->
                      IF u \in DOMAIN user_last_query
                      THEN [at |-> user_last_query[u], rejected |-> 0]
                      ELSE NeverCommitted]
    /\ messages_since_reply \in {EmptyDict,
                                 [c \in {10} |-> SPONTANEOUS_REPLY_MIN_MESSAGES - 1]}
NextUpdate ==
    \/ \E m \in UpdateMessages : UpdHandle(m)
    \/ \E buffer \in RecentBuffers, store \in {"ok", "down", "raises"} :
          HmTyped(1, buffer, store)
    \/ \E store \in {"ok", "raises"} : HmGathered(1, store)
    \/ \E ok \in BOOLEAN : HmAnswered(1, ok)
    \/ HmReplied(1)
    \/ UpdTick
    \/ \E draw \in BOOLEAN : UpdObserve(draw)
    \/ \E raised \in BOOLEAN : ObsLooked(1, raised)
    \/ \E comment \in BOOLEAN, delivered \in BOOLEAN : ObsGenerated(1, comment, delivered)
SpecUpdate == InitUpdate /\ [][NextUpdate]_vars

\* SpecUrl: clean_url applied to a URL and again to its result.  The URLs
\* carry up to MaxParams query parameters: tracking ones (by list, by prefix,
\* in capitals), others, repeated and blank-valued ones; with or without a
\* fragment; and URLs urlparse rejects.
UrlParams ==
    {Param("utm_", "source", FALSE, "x"), Param("utm_", "source", TRUE, "x"),
     Param("", "fbclid", FALSE, "x"), Param("aem_", "id", FALSE, "x"),
     Param("", "q", FALSE, "1"), Param("", "q", FALSE, "2"),
     Param("", "q", FALSE, ""), Param("", "page", FALSE, "3")}
RECURSIVE ParamSeqs(_)
ParamSeqs(n) ==
    IF n = 0 THEN {<<>>}
    ELSE ParamSeqs(n - 1)
         \cup {Append(ps, q) : ps \in {x \in ParamSeqs(n - 1) : Len(x) = n - 1},
                               q \in UrlParams}
UrlInputs ==
    {Url(101, ps, frag, valid) : ps \in ParamSeqs(MaxParams), frag \in BOOLEAN,
                                 valid \in BOOLEAN}
InitUrl ==
    /\ now = StartTime
    /\ CtxIdle
    /\ FactsIdle
    /\ FetchIdle
    /\ RouteIdle
    /\ PipeIdle
    /\ ObsIdle
    /\ \E u \in UrlInputs :
          norm = [pc |-> "given", u |-> u, once |-> NoUrl, twice |-> NoUrl]
NextUrl ==
    \/ Normalize
    \/ Renormalize
SpecUrl == InitUrl /\ [][NextUrl]_vars

\* ------------------------------------------------------------ properties
\* C1: after any sequence of add_to_context calls every conversation's buffer
\* holds at most CONTEXT_SIZE entries and is exactly the most recent
\* min(k, CONTEXT_SIZE) of the k entries appended to it, in append order.
C1_BufferIsLastN ==
    \A c \in Chats :
        /\ Len(CtxGet(chat_context, c)) <= CONTEXT_SIZE
        /\ Len(CtxGet(chat_context, c)) = Min(Len(appended[c]), CONTEXT_SIZE)
        /\ CtxGet(chat_context, c) = LastN(appended[c], CONTEXT_SIZE)

\* an append has overflowed the bound and the oldest entry is gone
C1_Witness ==
    \E c \in Chats :
        /\ Len(appended[c]) > CONTEXT_SIZE
        /\ Len(CtxGet(chat_context, c)) = CONTEXT_SIZE
        /\ chat_context[c][1] = appended[c][Len(appended[c]) - CONTEXT_SIZE + 1]
        /\ chat_context[c][1] # appended[c][1]

\* C2: check_rate_limit never changes user_last_query (neither its keys nor a
\* stored timestamp), and two consecutive checks for the same actor at the
\* same time with no set_rate_limit between them return the same result.
C2_CheckIsPure ==
    rl.op = "check" =>
        /\ DOMAIN user_last_query = DOMAIN rl.before
        /\ user_last_query = rl.before
        /\ \A i \in DOMAIN rl.prev :
              (rl.prev[i].user = rl.user /\ rl.prev[i].at = rl.at) =>
                  /\ rl.prev[i].limited = rl.limited
                  /\ rl.prev[i].remaining = rl.remaining


\* C3: a handle_message call that rejects a message as rate-limited leaves
\* user_last_query as it found it; it rejects only within RATE_LIMIT_SECONDS of
\* the timestamp the last admitted request of that user wrote, however many
\* attempts were rejected since, and tells the seconds left; a request made
\* RATE_LIMIT_SECONDS or more after that timestamp is admitted.
C3_RejectionKeepsTimestamp ==
    /\ lastHm.op = "rejected" =>
          /\ user_last_query = lastHm.before
          /\ lastHm.user \in DOMAIN user_last_query
          /\ user_last_query[lastHm.user] = committed[lastHm.user].at
          /\ lastHm.at - committed[lastHm.user].at < RATE_LIMIT_SECONDS
          /\ lastHm.remaining = RATE_LIMIT_SECONDS - (lastHm.at - committed[lastHm.user].at)
    /\ lastHm.op = "admitted" =>
          \/ committed[lastHm.user].at = 0
          \/ lastHm.at - committed[lastHm.user].at >= RATE_LIMIT_SECONDS
\* a user is admitted RATE_LIMIT_SECONDS after the last answer, having been
\* rejected twice in between
C3_Witness ==
    /\ lastHm.op = "admitted"
    /\ committed[lastHm.user].at # 0
    /\ lastHm.at - committed[lastHm.user].at = RATE_LIMIT_SECONDS
    /\ committed[lastHm.user].rejected >= 2

\* C4: a request that was admitted but whose model query fails, or whose
\* processing is aborted, does not update the user's rate-limit timestamp.
C4_FailedNotCommitted ==
    (\/ lastHm.op = "answered" /\ lastHm.failed
     \/ lastHm.op = "aborted")
    => user_last_query = lastHm.before

\* C5: every get_user_facts / get_group_facts call returns at most 20 / 30
\* facts, at any point of any interleaving of saves and reads of a subject.
C5_ReadWithinCap ==
    lastRead.op = "read" => Len(lastRead.facts) <= FactCap(lastRead.kind)

\* C6: the trim of a save removes exactly the facts beyond the cap with the
\* smallest order keys: as many as the set exceeds its cap by, none of them
\* newer than a fact it keeps, never the fact the save has just stored, and
\* the facts kept keep their order keys.
TrimRemoved == {i \in DOMAIN lastTrim.before :
                   lastTrim.before[i].member \notin Members(lastTrim.after)}
TrimKept == DOMAIN lastTrim.before \ TrimRemoved
C6_TrimRemovesOldest ==
    lastTrim.op = "trim" =>
        /\ Cardinality(TrimRemoved) =
               Max(0, Len(lastTrim.before) - FactCap(lastTrim.kind))
        /\ \A r \in TrimRemoved, k \in TrimKept :
               lastTrim.before[r].score <= lastTrim.before[k].score
        /\ \A r \in TrimRemoved : lastTrim.before[r].member # lastTrim.fact
        /\ \A k \in TrimKept :
               \E j \in DOMAIN lastTrim.after : lastTrim.after[j] = lastTrim.before[k]
        /\ Len(lastTrim.after) = Cardinality(TrimKept)

\* a save has pushed the set over its cap and trimmed it, with its own fact kept
C6_Witness ==
    /\ lastTrim.op = "trim"
    /\ Len(lastTrim.before) > FactCap(lastTrim.kind)
    /\ TrimRemoved # {}
    /\ lastTrim.fact \in Members(lastTrim.after)

\* C7: fetch_url_content returns the cached payload without starting any
\* attempt if and only if the cache holds an entry for the normalized URL that
\* is younger than URL_CACHE_TTL, whatever the entry holds; otherwise it starts
\* one task per profile, an expired entry is dropped, and the race's outcome is
\* stored under the normalized URL with the time of the store, so a second call
\* within the TTL returns the same payload.
C7_CacheHitIffLive ==
    /\ lastFetch.op = "returned" /\ lastFetch.hit =>
          /\ lastFetch.cached
          /\ lastFetch.at - lastFetch.cachedAt < URL_CACHE_TTL
          /\ lastFetch.key \in DOMAIN url_cache
          /\ url_cache[lastFetch.key] = [content |-> lastFetch.ret, ts |-> lastFetch.cachedAt]
          /\ fcall[1] = IdleFetch
    /\ lastFetch.op = "racing" =>
          /\ lastFetch.cached => lastFetch.at - lastFetch.cachedAt >= URL_CACHE_TTL
          /\ lastFetch.key \notin DOMAIN url_cache
          /\ \A pr \in Profiles : fcall[1].tasks[pr] = "pending"
    /\ lastFetch.op = "returned" /\ ~lastFetch.hit =>
          /\ lastFetch.key \in DOMAIN url_cache
          /\ url_cache[lastFetch.key] = [content |-> lastFetch.ret, ts |-> lastFetch.at]
\* a call for the tracked form of a URL is answered from the failure payload
\* an earlier call stored half a TTL before
C7_Witness ==
    /\ lastFetch.op = "returned" /\ lastFetch.hit
    /\ lastFetch.url = UrlTracked /\ lastFetch.key = UrlPlain
    /\ lastFetch.ret.kind = "degraded"
    /\ lastFetch.at - lastFetch.cachedAt = URL_CACHE_TTL \div 2

\* C8: when the race ends with no successful attempt, fetch_url_content
\* returns the degraded payload, which names the site and tells the model not
\* to guess, never the empty string, and stores that payload in the cache.
C8_NoSuccessGivesDegraded ==
    (/\ lastFetch.op = "returned" /\ ~lastFetch.hit
     /\ \A i \in DOMAIN lastFetch.seen : ~lastFetch.seen[i].ok)
    => /\ lastFetch.ret.kind = "degraded"
       /\ lastFetch.ret.site = lastFetch.key.site
       /\ lastFetch.ret.noguess
       /\ url_cache[lastFetch.key].content = lastFetch.ret

\* C9: fetch_url_content never raises: whatever the attempts do, the call
\* ends by returning a string.  A waiting call always has an attempt left
\* that is pending or has completed unexamined; whenever one has completed the
\* call can be resumed, and each resumption examines every completed attempt,
\* so the call returns at the latest when the last attempt is examined.
C9_Payloads == {"blank", "content", "degraded"}
C9_NeverRaises ==
    /\ lastFetch.op # "raised"
    /\ lastFetch.op = "returned" => lastFetch.ret.kind \in C9_Payloads
    /\ fcall[1].pc = "waiting" =>
          /\ \E pr \in Profiles : fcall[1].tasks[pr] \in {"pending", "done"}
          /\ (\E pr \in Profiles : fcall[1].tasks[pr] = "done") => ENABLED FetchWake(1)
    /\ fcall[1].pc = "idle" => fcall[1].tasks = NoTasks
\* a call returns the degraded payload after the extraction of a fetched page
\* raised, while the other attempt was still pending
C9_Witness ==
    /\ lastFetch.op = "returned"
    /\ \E i \in DOMAIN lastFetch.seen :
          lastFetch.seen[i].ok /\ ~lastFetch.seen[i].html.jsonld_ok
    /\ \E pr \in Profiles : lastFetch.tasks[pr] = "pending"
    /\ lastFetch.ret.kind = "degraded"

\* C10: in a multi-party conversation should_respond returns true if and only
\* if the message carries content (text or caption, a forward marker or a
\* photo) and either replies to a message of the bot (the sender's username is
\* the bot's handle ignoring case, or the sender's id is the bot's id) or its
\* text or caption contains "@" followed by the bot's handle.
C10_Carries ==
    \/ update.text # <<>> \/ update.caption # <<>>
    \/ update.forward_origin
    \/ update.photo > 0
C10_RepliesToBot ==
    LET sender == update.reply_to_message.from_user IN
    /\ update.reply_to_message.present
    /\ sender.present
    /\ \/ sender.username # NoName /\ sender.username.stem = botcfg.username.stem
       \/ sender.id = botcfg.id
C10_MentionsBot ==
    \E txt \in {update.text, update.caption} :
        \E i \in DOMAIN txt : txt[i].at /\ txt[i].h = botcfg.username
C10_GroupRouting ==
    (route.op = "done" /\ update.present /\ update.chat_type # "private")
    => (route.result <=> (C10_Carries /\ (C10_RepliesToBot \/ C10_MentionsBot)))
\* a photo without caption, in a supergroup, replying to a message whose
\* sender has the bot's handle in another case and another id
C10_Witness ==
    /\ route.op = "done" /\ route.result
    /\ update.chat_type = "supergroup"
    /\ update.text = <<>> /\ update.caption = <<>> /\ update.photo > 0
    /\ update.reply_to_message.from_user.username = BotNameCaps
    /\ botcfg.username = BotName
    /\ update.reply_to_message.from_user.id # botcfg.id

\* C11: in a one-to-one conversation should_respond returns true for every
\* message that carries text or a caption, a forward marker or a photo, and
\* false for a message that carries none of them.
C11_PrivateRouting ==
    (route.op = "done" /\ update.present /\ update.chat_type = "private")
    => (route.result <=> C10_Carries)

\* C12: a group message with text that neither mentions the bot nor replies
\* to it is not routed: handle_message appends it to the chat's context as one
\* user entry and stops (no reply, no model query), and leaves the rate-limit
\* state and the fact store unchanged.
C12_IsIgnoredGroupText ==
    /\ lastHm.op = "ignored"
    /\ lastHm.msg.chat_type # "private"
    /\ get_message_content(lastHm.msg) # <<>>
C12_Tracked ==
    LET buf == chat_context[lastHm.msg.chat_id] IN
    /\ lastHm.msg.chat_id \in DOMAIN chat_context
    /\ Len(buf) >= 1
    /\ buf[Len(buf)] = [role |-> "user", name |-> DisplayName(lastHm.user),
                        content |-> TextOf(get_message_content(lastHm.msg)),
                        time |-> lastHm.at]
C12_Stops ==
    /\ hm[1] = IdleHm
    /\ \A k \in FactKeys : zsets[k] = EmptyZset
C12_IgnoredLeavesRateState ==
    C12_IsIgnoredGroupText
    => /\ C12_Tracked
       /\ C12_Stops
       /\ user_last_query = lastHm.found

\* C12 as amended: the same, except that the eviction sweep handle_message
\* starts with may drop timestamps older than RATE_LIMIT_MAX_AGE and a context
\* whose last entry is older than CONTEXT_MAX_AGE; no timestamp is written or
\* added, and the entry follows what the sweep left of the chat's context.
C12_IgnoredOnlySweeps ==
    C12_IsIgnoredGroupText
    => /\ C12_Tracked
       /\ C12_Stops
       /\ \A u \in DOMAIN user_last_query :
            u \in DOMAIN lastHm.found /\ user_last_query[u] = lastHm.found[u]
       /\ \A u \in DOMAIN lastHm.found \ DOMAIN user_last_query :
            lastHm.at - lastHm.found[u] > RATE_LIMIT_MAX_AGE
       /\ LET buf == chat_context[lastHm.msg.chat_id]
              old == lastHm.ctx
              kept == IF old # <<>> /\ lastHm.at - old[Len(old)].time > CONTEXT_MAX_AGE
                         /\ Len(buf) = 1
                      THEN <<>> ELSE old
          IN  SubSeq(buf, 1, Len(buf) - 1) = LastN(kept, CONTEXT_SIZE - 1)
\* an ignored group message whose call swept a stale timestamp away
C12_Witness ==
    /\ C12_IsIgnoredGroupText
    /\ DOMAIN lastHm.found # DOMAIN user_last_query
    /\ Len(chat_context[lastHm.msg.chat_id]) > 1

\* C19: a check_rate_limit made d seconds after the set_rate_limit of the
\* same user returns (True, RATE_LIMIT_SECONDS - d) when 0 <= d <
\* RATE_LIMIT_SECONDS and (False, 0) when d >= RATE_LIMIT_SECONDS.
C19_Committed == rl.op = "check" /\ rl.user \in DOMAIN rl.before /\ rl.before[rl.user] # 0
C19_CheckAfterCommit ==
    C19_Committed =>
        LET d == rl.at - rl.before[rl.user] IN
        /\ d >= 0
        /\ d < RATE_LIMIT_SECONDS => rl.limited /\ rl.remaining = RATE_LIMIT_SECONDS - d
        /\ d >= RATE_LIMIT_SECONDS => ~rl.limited /\ rl.remaining = 0
\* the check six seconds after the commit, admitted
C19_Witness ==
    /\ C19_Committed
    /\ rl.at - rl.before[rl.user] = RATE_LIMIT_SECONDS + 1
    /\ ~rl.limited
    /\ rl.remaining = 0

\* C20: after any sequence of fetch_url_content calls the URL cache holds at
\* most URL_CACHE_MAX entries.
C20_CacheBounded == Cardinality(DOMAIN url_cache) <= URL_CACHE_MAX

\* C13: once should_respond has returned true for a message, handle_message
\* sends a reply to it on every path: no call for a routed message ends
\* without having sent one.
C13_RoutedCallReplies ==
    (/\ lastHm.op \in {"replied", "aborted"}
     /\ should_respond(lastHm.msg, botcfg.username, botcfg.id))
    => lastHm.op = "replied"

\* C14: when the store is not connected or a call to it raises, the reads made
\* while handling a message yield nothing and the call goes on to the model
\* query: the failure never ends handle_message.
C14_StoreFailureDegrades ==
    (lastHm.op \in {"gathered", "aborted"} /\ lastHm.store # "ok")
    => /\ lastHm.op = "gathered"
       /\ hm[1].pc = "querying"

\* C15: every spontaneous send to a chat happens when at least
\* SPONTANEOUS_REPLY_COOLDOWN seconds have passed since the previous one, at
\* least SPONTANEOUS_REPLY_MIN_MESSAGES messages were counted since the last
\* reply of the bot, and fewer than PROACTIVE_MAX_PER_HOUR sends lie in the
\* preceding hour, also when calls overlap.
C15_SendWithinLimits ==
    lastObs.op = "sent"
    => /\ lastObs.since = -1 \/ lastObs.since >= SPONTANEOUS_REPLY_COOLDOWN
       /\ lastObs.count >= SPONTANEOUS_REPLY_MIN_MESSAGES
       /\ lastObs.recent < PROACTIVE_MAX_PER_HOUR

\* C16: a chat whose quiet key has been set and not cleared never receives a
\* spontaneous send, whatever the lookup of the key does.
C16_MutedNeverSent == lastObs.op = "sent" => ~lastObs.muted

\* C17: whenever the bot sends a reply into a chat (the model's answer, the
\* rate-limit notice, the prompt asking what the user wanted, a spontaneous
\* comment) the chat's messages-since-reply counter is zero afterwards.
C17_ReplyResetsCounter ==
    /\ lastHm.op = "replied"
         => DictGet(messages_since_reply, lastHm.msg.chat_id, 0) = 0
    /\ lastObs.op = "sent"
         => DictGet(messages_since_reply, lastObs.chat, 0) = 0

\* C18: no spontaneous send occurs while fewer than
\* SPONTANEOUS_REPLY_MIN_MESSAGES messages have been counted since the last
\* reply of the bot; a call is turned away by the rate check only when the
\* count, the cooldown or the hourly quota stands against it, by quiet hours
\* only in them and by quiet mode only in a muted chat; and a send leaves the
\* counter at zero.
C18_SendFromMinMessages ==
    LET c == lastObs.chat
        earlier == sends[c]
    IN  /\ lastObs.op = "sent"
             => /\ lastObs.count >= SPONTANEOUS_REPLY_MIN_MESSAGES
                /\ messages_since_reply[c] = 0
        /\ (lastObs.op = "skipped" /\ lastObs.why = "rate")
             => \/ lastObs.count < SPONTANEOUS_REPLY_MIN_MESSAGES
                \/ /\ earlier # <<>>
                   /\ lastObs.at - earlier[Len(earlier)] < SPONTANEOUS_REPLY_COOLDOWN
                \/ Len(SelectSeq(earlier, LAMBDA x : lastObs.at - x < HOUR_SECONDS))
                      >= PROACTIVE_MAX_PER_HOUR
        /\ (lastObs.op = "skipped" /\ lastObs.why = "quiet hours")
             => TallinnHour(lastObs.at) \notin QUIET_HOURS_END..(QUIET_HOURS_START - 1)
        /\ (lastObs.op = "skipped" /\ lastObs.why = "quiet mode") => c \in quiet

\* C21: clean_url is idempotent: for every URL, applying it to its own
\* result gives that result again.
C21_Idempotent == norm.pc = "twice" => norm.twice = norm.once
\* a URL with a tracking parameter, a repeated parameter, a blank-valued one
\* and a fragment, normalized twice
C21_Witness ==
    /\ norm.pc = "twice"
    /\ norm.u.valid
    /\ norm.u.frag
    /\ \E i, j, k, l \in DOMAIN norm.u.params :
          /\ IsTracking(norm.u.params[i])
          /\ j < k
          /\ k < l
          /\ SameKey(norm.u.params[j], norm.u.params[l])
          /\ norm.u.params[j].v # ""
          /\ norm.u.params[l].v # ""
          /\ norm.u.params[j].v # norm.u.params[l].v
          /\ ~SameKey(norm.u.params[j], norm.u.params[k])
          /\ ~IsTracking(norm.u.params[k])
    /\ norm.once # norm.u

\* C22: clean_url(u) removes every tracking query parameter (name in the
\* deny-list or starting with utm_ or aem_, in any case) and the fragment, and
\* preserves the scheme, host and path and every other query parameter with
\* its values.
Occurrences(ps, q) == Cardinality({i \in DOMAIN ps : ps[i] = q})
C22_StripsOnlyTracking ==
    norm.pc = "once" =>
        /\ norm.once.site = norm.u.site
        /\ ~norm.once.frag
        /\ \A i \in DOMAIN norm.once.params : ~IsTracking(norm.once.params[i])
        /\ \A i \in DOMAIN norm.u.params :
              LET q == norm.u.params[i] IN
              ~IsTracking(q) => Occurrences(norm.once.params, q) = Occurrences(norm.u.params, q)

\* C23: saving a fact the subject already holds creates no second entry: the
\* number of facts is unchanged, the fact's score becomes the current time so
\* that no fact is listed after it as newer, and no other fact is removed (the
\* facts are the same, with their scores, and a trim of a set within its cap
\* removes nothing).
C23_Resaved == lastTrim.op = "zadd" /\ lastTrim.fact \in Members(lastTrim.before)
C24_OwnEntry ==
    [role |-> "user", name |-> DisplayName(lastHm.user),
     content |-> Truncate(TextOf(IF lastHm.msg.chat_type = "private"
                                 THEN hm[1].question
                                 ELSE get_message_content(lastHm.msg))),
     time |-> lastHm.at]
C24_HistoryReadBeforeAppend ==
    lastHm.op = "typed" =>
        LET c == lastHm.msg.chat_id
            old == LastN(lastHm.ctx, CONTEXT_SIZE)
        IN  /\ hm[1].pc = "gathering"
            /\ IF old = <<>> /\ lastHm.msg.chat_type # "private"
               THEN \E buffer \in RecentBuffers :
                       hm[1].history = RecentAsHistory(
                           get_recent_chat_messages("ok", buffer, RECENT_FALLBACK_COUNT))
               ELSE /\ Len(hm[1].history) = Len(old)
                    /\ \A i \in DOMAIN old :
                          /\ hm[1].history[i].role = old[i].role
                          /\ hm[1].history[i].content = old[i].content
            /\ chat_context[c] = LastN(Append(lastHm.ctx, C24_OwnEntry), CONTEXT_SIZE)
\* a question in a chat that has a context: the history holds the earlier
\* entries, the context one entry more
C24_Witness ==
    /\ lastHm.op = "typed"
    /\ lastHm.ctx # <<>>
    /\ Len(hm[1].history) = Len(lastHm.ctx)
    /\ Len(chat_context[lastHm.msg.chat_id]) = Len(lastHm.ctx) + 1

\* C25: nothing is appended to the context for an answered message between
\* the history read and the completion of the model call: the step that
\* reads the history leaves the conversation's context as it was.
C25_NothingAppendedBeforeAnswer ==
    lastHm.op = "typed" => CtxGet(chat_context, lastHm.msg.chat_id) = lastHm.ctx

\* C26: a rate-limited message is recorded into its conversation's context in
\* every chat type, the handler goes on to reply with the remaining cooldown
\* only, and no model query or fact learning follows.
C26_LimitedIsRecorded ==
    (lastHm.op = "rejected" /\ get_message_content(lastHm.msg) # <<>>) =>
        LET c == lastHm.msg.chat_id
            buf == CtxGet(chat_context, c)
        IN  /\ Len(buf) >= 1
            /\ buf[Len(buf)] = [role |-> "user", name |-> DisplayName(lastHm.user),
                                content |-> Truncate(TextOf(get_message_content(lastHm.msg))),
                                time |-> lastHm.at]
            /\ hm[1].pc = "rejecting"
            /\ lastHm.remaining > 0
            /\ \A k \in FactKeys : zsets[k] = EmptyZset

\* C27: an attempt that completes with HTTP 403, 429 or 503, whatever its
\* body, or with a body matching the bot-protection indicators, stops the
\* race: the call does not go on waiting once such a result was examined, and
\* when it returns after one, that result is the last it examined and no
\* attempt is left pending.
C27_IsHardBlock(s) == s.error \in {"cloudflare", "HTTP soft block"}
C27_HardBlockStopsRace ==
    /\ fcall[1].pc = "waiting" =>
          \A i \in DOMAIN fcall[1].seen : ~C27_IsHardBlock(fcall[1].seen[i])
    /\ lastFetch.op = "returned" =>
          \A i \in DOMAIN lastFetch.seen :
              C27_IsHardBlock(lastFetch.seen[i]) =>
                  /\ i = Len(lastFetch.seen)
                  /\ \A pr \in Profiles : lastFetch.tasks[pr] # "pending"

\* C28: an attempt that fails with an HTTP status >= 400 outside 403, 429 and
\* 503, or with an exception or timeout, does not end the race while another
\* attempt is in flight; when another attempt then brings a page that does
\* not match the bot-protection indicators, the call returns the content
\* extracted from that page and not the degraded payload.
C28_IsAttemptFailure(s) == s.error \in {"HTTP error", "exception"}
C28_FailureLetsPageWin ==
    (lastFetch.op = "returned" /\ ~lastFetch.hit) =>
        /\ (\A i \in DOMAIN lastFetch.seen : C28_IsAttemptFailure(lastFetch.seen[i]))
           => \A pr \in Profiles : lastFetch.tasks[pr] = "examined"
        /\ \A i, j \in DOMAIN lastFetch.seen :
              (C28_IsAttemptFailure(lastFetch.seen[i]) /\ lastFetch.seen[j].ok)
              => /\ lastFetch.ret.kind # "degraded"
                 /\ lastFetch.ret = extract_content_from_html(lastFetch.seen[j].html)

\* C29: when fetch_url_content returns after a race, none of the attempts it
\* started is still in flight: each has completed or has been cancelled.
C29_NoAttemptInFlightAtReturn ==
    (lastFetch.op = "returned" /\ ~lastFetch.hit) =>
        \A pr \in Profiles : lastFetch.tasks[pr] \in {"examined", "cancelled"}

\* C30: at most one request of an actor is admitted per cooldown window, also
\* when the actor's messages are handled concurrently: within
\* RATE_LIMIT_SECONDS of the start, no two calls for messages of one actor
\* are both past the rate check and on their way to the model query.
C30_Admitted(p) == hm[p].pc \in {"typing", "gathering", "querying"}
C30_OneAdmissionPerWindow ==
    \A p, q \in HmSlots :
        (/\ p # q
         /\ C30_Admitted(p) /\ C30_Admitted(q)
         /\ hm[p].msg.from_id = hm[q].msg.from_id)
        => now - StartTime >= RATE_LIMIT_SECONDS

\* C31: two overlapping fetch_url_content calls for URLs with the same
\* normalized form start at most one race between them: no two calls are
\* waiting for their own attempts on the same cache key at the same time.
C31_OneRacePerKey ==
    \A p, q \in FetchSlots :
        (p # q /\ fcall[p].pc = "waiting" /\ fcall[q].pc = "waiting")
        => fcall[p].key # fcall[q].key

\* C32: no group message receives both a reply of handle_message (the
\* model's answer, the rate-limit notice or the prompt asking what the user
\* wanted) and a spontaneous reply of observe_and_learn, which runs on the
\* message after handle_message has finished with it.
C32_SameUpdate ==
    /\ hmcalls = observed
    /\ hm[1].pc = "idle"
    /\ lastObs.chat = lastHm.msg.chat_id
C32_NoDoubleReply ==
    (C32_SameUpdate /\ lastHm.op = "replied") => lastObs.op # "sent"

\* C33: every group message with text or caption that handle_message
\* processes is appended to its conversation's context as a user entry
\* exactly once, whichever path the handler takes: not routed, the prompt
\* asking what the user wanted, rate-limited, answered.  After the step that
\* decides the path (for an answered message: the step that reads the
\* history) the context is what was there before, less what the sweep
\* evicted, followed by the one entry.
C33_GroupContent ==
    /\ lastHm.op \in {"ignored", "asked", "rejected", "typed"}
    /\ lastHm.msg.chat_type # "private"
    /\ get_message_content(lastHm.msg) # <<>>
C33_AppendedOnce ==
    C33_GroupContent =>
        LET c == lastHm.msg.chat_id
            buf == CtxGet(chat_context, c)
            old == lastHm.ctx
            swept == /\ lastHm.op # "typed"
                     /\ old # <<>>
                     /\ lastHm.at - old[Len(old)].time > CONTEXT_MAX_AGE
                     /\ Len(buf) <= 1
            kept == IF swept THEN <<>> ELSE old
        IN  /\ Len(buf) >= 1
            /\ buf[Len(buf)] = [role |-> "user", name |-> DisplayName(lastHm.user),
                                content |-> Truncate(TextOf(get_message_content(lastHm.msg))),
                                time |-> lastHm.at]
            /\ SubSeq(buf, 1, Len(buf) - 1) = LastN(kept, CONTEXT_SIZE - 1)

\* C34: the background fact extraction for a message is started only in the
\* step that follows the sending of the model's answer, which ends the
\* handler without awaiting the task; each answer starts one.  Whatever the
\* task does afterwards (finding nothing, failing, saving a fact) changes
\* neither the context nor the rate-limit state nor the handler, and it always
\* ends.
C34_Started == Len(extractions') > Len(extractions)
C34_TaskStep == extractions' # extractions /\ Len(extractions') = Len(extractions)
C34_Answered == lastHm'.op = "replied" /\ lastHm'.reply = "replying"
C34_LearningAfterReply ==
    [][/\ C34_Started <=> (C34_Answered /\ lastHm' # lastHm)
       /\ C34_Started =>
            /\ hm[1].pc = "replying"
            /\ hm'[1] = IdleHm
            /\ extractions' = Append(extractions,
                                     [pc |-> "extracting", chat |-> lastHm'.msg.chat_id,
                                      user |-> lastHm'.user, slot |-> 0])
       /\ C34_TaskStep =>
            /\ UNCHANGED <<chat_context, user_last_query, last_eviction, hm, lastHm,
                           committed, messages_since_reply>>
            /\ \A i \in DOMAIN extractions :
                  extractions'[i] # extractions[i]
                  => /\ extractions[i].pc \in {"extracting", "saving"}
                     /\ extractions'[i].pc \in {"saving", "done", "failed"}
      ]_vars
\* the extraction for an answered private message has failed after the reply:
\* the answer is in the context, the timestamp is committed, the handler idle
C34_Witness ==
    /\ Len(extractions) = 1
    /\ extractions[1].pc = "failed"
    /\ hm[1] = IdleHm
    /\ Len(CtxGet(chat_context, extractions[1].chat)) = 2
    /\ extractions[1].user \in DOMAIN user_last_query
    /\ committed[extractions[1].user].at = user_last_query[extractions[1].user]

\* C35: when the generation call returns no comment (the sentinel, or a
\* failure), nothing is sent and the chat's last-spontaneous timestamp,
\* messages-since-reply counter and hourly send window stay as they were;
\* they change at the outcome of a generation only with a contribution, which
\* is sent, resets the counter and the cooldown clock and adds one timestamp
\* to the hourly window.
C35_Outcome(p) == obs[p].pc = "generating" /\ obs'[p].pc = "idle"
C35_OnlyContributionChanges ==
    [][\A p \in ObsSlots :
         C35_Outcome(p) =>
            LET c == obs[p].chat IN
            IF lastObs'.op = "sent"
            THEN /\ sends' = [sends EXCEPT ![c] = Append(@, now)]
                 /\ last_spontaneous' = DictSet(last_spontaneous, c, now)
                 /\ messages_since_reply' = DictSet(messages_since_reply, c, 0)
                 /\ hourly_sends' = DictSet(hourly_sends, c,
                                            Append(DictGet(hourly_sends, c, <<>>), now))
            ELSE UNCHANGED <<sends, last_spontaneous, messages_since_reply, hourly_sends>>
      ]_vars

\* C36 as stated: a routed message with no question text, no referenced
\* content and no image gets the prompt asking what the user wanted, and the
\* call stops with the context store, the rate-limit state and the fact store
\* unchanged and no model query made.
C36_Prompted ==
    /\ lastHm.op = "asked"
    /\ hm[1].pc = "asking"
    /\ hm[1].question = <<>>
    /\ \A k \in FactKeys : zsets[k] = EmptyZset
C36_PromptChangesNothing ==
    lastHm.op = "asked" =>
        /\ C36_Prompted
        /\ chat_context = lastHm.contexts
        /\ user_last_query = lastHm.found

\* C36 as amended: the same, except that the eviction sweep handle_message
\* starts with may drop contexts whose last entry is older than
\* CONTEXT_MAX_AGE and timestamps older than RATE_LIMIT_MAX_AGE; every other
\* context and timestamp is as it was, and nothing is added.
C36_PromptOnlySweeps ==
    lastHm.op = "asked" =>
        /\ C36_Prompted
        /\ \A c \in DOMAIN chat_context :
              c \in DOMAIN lastHm.contexts /\ chat_context[c] = lastHm.contexts[c]
        /\ \A c \in DOMAIN lastHm.contexts \ DOMAIN chat_context :
              LET buf == lastHm.contexts[c] IN
              Len(buf) > 0 /\ lastHm.at - buf[Len(buf)].time > CONTEXT_MAX_AGE
        /\ \A u \in DOMAIN user_last_query :
              u \in DOMAIN lastHm.found /\ user_last_query[u] = lastHm.found[u]
        /\ \A u \in DOMAIN lastHm.found \ DOMAIN user_last_query :
              lastHm.at - lastHm.found[u] > RATE_LIMIT_MAX_AGE
\* a bare mention whose call swept a stale context and a stale timestamp away
C36_Witness ==
    /\ lastHm.op = "asked"
    /\ hm[1].pc = "asking"
    /\ DOMAIN chat_context # DOMAIN lastHm.contexts
    /\ DOMAIN user_last_query # DOMAIN lastHm.found

\* C37: the durable buffer of recent messages is read exactly when the
\* in-memory history of the chat is empty and the chat is not private; the
\* history passed on is then the buffer's RECENT_FALLBACK_COUNT most recent
\* entries, oldest first, each as a user entry; when the read fails the
\* history is empty and the call goes on to gather the facts
C37_Expected(buffer) ==
    LET n == Min(RECENT_FALLBACK_COUNT, Len(buffer))
    IN  [i \in 1..n |-> [role |-> "user", content |-> buffer[n + 1 - i]]]
C37_FallbackOldestFirst ==
    lastHm.op = "typed" =>
        LET old == LastN(lastHm.ctx, CONTEXT_SIZE) IN
        /\ lastHm.read <=> (old = <<>> /\ lastHm.msg.chat_type # "private")
        /\ lastHm.read =>
              /\ hm[1].history = IF lastHm.store = "ok"
                                 THEN C37_Expected(lastHm.buffer) ELSE <<>>
              /\ hm[1].pc = "gathering"
        /\ ~lastHm.read => Len(hm[1].history) = Len(old)
\* a group chat without a context whose buffer holds more entries than are
\* asked for: the history starts at the oldest entry that was read and ends
\* at the newest
C37_Witness ==
    /\ lastHm.op = "typed"
    /\ lastHm.read
    /\ lastHm.store = "ok"
    /\ Len(lastHm.buffer) > RECENT_FALLBACK_COUNT
    /\ Len(hm[1].history) = RECENT_FALLBACK_COUNT
    /\ hm[1].history[1].content = lastHm.buffer[RECENT_FALLBACK_COUNT]
    /\ hm[1].history[RECENT_FALLBACK_COUNT].content = lastHm.buffer[1]

\* C38: a call of evict_stale_data less than EVICTION_INTERVAL after the last
\* effective sweep changes nothing; an effective sweep removes exactly the
\* contexts whose newest entry is older than CONTEXT_MAX_AGE and the
\* timestamps older than RATE_LIMIT_MAX_AGE and leaves every other context
\* and timestamp as it was. Read off the call that answers a bare mention
\* with the prompt, which writes nothing after its sweep.
C38_StaleChat(c) ==
    LET buf == lastHm.contexts[c] IN
    Len(buf) > 0 /\ lastHm.at - buf[Len(buf)].time > CONTEXT_MAX_AGE
C38_StaleUser(u) == lastHm.at - lastHm.found[u] > RATE_LIMIT_MAX_AGE
C38_Effective == lastHm.at - lastHm.last_eviction >= EVICTION_INTERVAL
C38_SweepExact ==
    lastHm.op = "asked" =>
        IF ~C38_Effective
        THEN /\ chat_context = lastHm.contexts
             /\ user_last_query = lastHm.found
             /\ last_eviction = lastHm.last_eviction
        ELSE /\ last_eviction = lastHm.at
             /\ DOMAIN chat_context = {c \in DOMAIN lastHm.contexts : ~C38_StaleChat(c)}
             /\ \A c \in DOMAIN chat_context : chat_context[c] = lastHm.contexts[c]
             /\ DOMAIN user_last_query = {u \in DOMAIN lastHm.found : ~C38_StaleUser(u)}
             /\ \A u \in DOMAIN user_last_query : user_last_query[u] = lastHm.found[u]
\* an effective sweep that drops one user's stale timestamp and keeps the
\* other user's timestamp and both contexts
C38_Witness ==
    /\ lastHm.op = "asked"
    /\ C38_Effective
    /\ \E u \in DOMAIN lastHm.found : u \notin DOMAIN user_last_query
    /\ \E u \in DOMAIN lastHm.found : u \in DOMAIN user_last_query
    /\ DOMAIN chat_context = DOMAIN lastHm.contexts
    /\ chat_context # EmptyDict
\* a sweep that drops a stale context
C38_WitnessContext ==
    /\ lastHm.op = "asked"
    /\ C38_Effective
    /\ \E c \in DOMAIN lastHm.contexts : c \notin DOMAIN chat_context
\* a call within the interval while a stale timestamp is still held
C38_WitnessWithin ==
    /\ lastHm.op = "asked"
    /\ ~C38_Effective
    /\ \E u \in DOMAIN lastHm.found : C38_StaleUser(u)

\* C39: the payload fetch_url_content returns does not depend on the order in
\* which the attempts that completed in the same wait are examined: whenever
\* some completed attempt brought a page whose content can be extracted, the
\* payload is the content of such a page, also when another attempt's
\* bot-block result was available in the same wait
C39_Usable(r) == r.ok /\ extract_content_from_html(r.html) # Raises
C39_Completed == {lastFetch.seen[i] : i \in DOMAIN lastFetch.seen} \cup lastFetch.unseen
C39_OrderIndependent ==
    (lastFetch.op = "returned" /\ ~lastFetch.hit
       /\ \E r \in C39_Completed : C39_Usable(r)) =>
        \E r \in C39_Completed :
            C39_Usable(r) /\ lastFetch.ret = extract_content_from_html(r.html)

=============================================================================
